---- MODULE Spec2Model ----
(***************************************************************************)
(* A model of adp_extractor.py: the amount lexer, the earnings, deductions *)
(* and other-benefits parsers, the taxable-wages probe and the             *)
(* year-to-date validator.                                                 *)
(*                                                                         *)
(* Python strings are sequences of one-character strings, so that find,    *)
(* split, strip and the regular expressions are computed character by      *)
(* character.  Indices kept in variables are Python's (0-based).           *)
(***************************************************************************)
EXTENDS Integers, Sequences, FiniteSets, TLC

(***************************************************************************)
(* Characters and basic string operations.                                 *)
(***************************************************************************)
Digits == {"0", "1", "2", "3", "4", "5", "6", "7", "8", "9"}

Lowers == {"a", "b", "c", "d", "e", "f", "g", "h", "i", "j", "k", "l", "m",
           "n", "o", "p", "q", "r", "s", "t", "u", "v", "w", "x", "y", "z"}

Uppers == {"A", "B", "C", "D", "E", "F", "G", "H", "I", "J", "K", "L", "M",
           "N", "O", "P", "Q", "R", "S", "T", "U", "V", "W", "X", "Y", "Z"}

Letters == Lowers \cup Uppers

Space == {" "}

\* Python's None; no string equals it
None == <<"<None>">>

\* F(v) with v evaluated once, before F is: a local of the code, assigned
\* once and read many times
Let(v, F(_)) == CHOOSE r \in {F(x) : x \in {v}} : TRUE

\* truthiness of an Optional[str]: neither None nor ""
Truthy(v) == v # None /\ v # <<>>

\* str.lower() on one character
LowerChar(c) ==
    CASE c = "A" -> "a" [] c = "B" -> "b" [] c = "C" -> "c" [] c = "D" -> "d"
      [] c = "E" -> "e" [] c = "F" -> "f" [] c = "G" -> "g" [] c = "H" -> "h"
      [] c = "I" -> "i" [] c = "J" -> "j" [] c = "K" -> "k" [] c = "L" -> "l"
      [] c = "M" -> "m" [] c = "N" -> "n" [] c = "O" -> "o" [] c = "P" -> "p"
      [] c = "Q" -> "q" [] c = "R" -> "r" [] c = "S" -> "s" [] c = "T" -> "t"
      [] c = "U" -> "u" [] c = "V" -> "v" [] c = "W" -> "w" [] c = "X" -> "x"
      [] c = "Y" -> "y" [] c = "Z" -> "z" [] OTHER -> c

\* str.lower()
Lower(s) == [k \in 1..Len(s) |-> LowerChar(s[k])]

\* s[a:b] with Python's clipping, a and b 0-based and non-negative
Slice(s, a, b) == SubSeq(s, a + 1, IF b > Len(s) THEN Len(s) ELSE b)

\* does sub occur in s at 0-based position p
OccursAt(s, sub, p) ==
    /\ p >= 0
    /\ p + Len(sub) <= Len(s)
    /\ \A k \in 1..Len(sub) : s[p + k] = sub[k]

\* the 0-based positions at which sub occurs in s
Occurrences(s, sub) == {p \in 0..Len(s) : OccursAt(s, sub, p)}

\* sub in s
Contains(s, sub) == Occurrences(s, sub) # {}

SetMin(S) == CHOOSE m \in S : \A o \in S : m <= o

SetMax(S) == CHOOSE m \in S : \A o \in S : m >= o

\* s.find(sub): the first position, -1 when there is none
Find(s, sub) == IF Contains(s, sub) THEN SetMin(Occurrences(s, sub)) ELSE -1

\* s.split(sub, 1)[1] for a non-empty sub that occurs in s
AfterFirst(s, sub) == Slice(s, Find(s, sub) + Len(sub), Len(s))

\* s.strip()
Strip(s) ==
    LET keep == {k \in 1..Len(s) : s[k] \notin Space}
    IN  IF keep = {} THEN <<>> ELSE SubSeq(s, SetMin(keep), SetMax(keep))

\* s.split(): the maximal runs of non-whitespace characters, in order
Split(s) ==
    LET starts == {k \in 1..Len(s) : s[k] \notin Space /\ (k = 1 \/ s[k - 1] \in Space)}
        stops  == {k \in 1..Len(s) : s[k] \notin Space /\ (k = Len(s) \/ s[k + 1] \in Space)}
        nth(S, j) == CHOOSE x \in S : Cardinality({y \in S : y <= x}) = j
    IN  [j \in 1..Cardinality(starts) |-> SubSeq(s, nth(starts, j), nth(stops, j))]

\* ' '.join(toks)
RECURSIVE Join(_)
Join(toks) ==
    IF toks = <<>> THEN <<>>
    ELSE IF Len(toks) = 1 THEN toks[1]
    ELSE toks[1] \o <<" ">> \o Join(Tail(toks))

\* s.replace(c, '') for each character c of cs
Without(s, cs) == SelectSeq(s, LAMBDA c : c \notin cs)

\* str.isdigit(): non-empty and all digits
IsDigitStr(s) == s # <<>> /\ \A k \in 1..Len(s) : s[k] \in Digits

StartsWith(s, pre) == OccursAt(s, pre, 0)

EndsWith(s, suf) == Len(suf) <= Len(s) /\ OccursAt(s, suf, Len(s) - Len(suf))

(***************************************************************************)
(* Regular expressions: a pattern is a sequence of items, each a character *)
(* class repeated between lo and hi times.  Ends gives every position at   *)
(* which a match that starts at position i (1-based) can end.              *)
(***************************************************************************)
Rep(cs, lo, hi) == [cs |-> cs, lo |-> lo, hi |-> hi]

RECURSIVE Ends(_, _, _)
Ends(pat, s, i) ==
    IF pat = <<>> THEN {i}
    ELSE LET p    == Head(pat)
             top  == IF p.hi < Len(s) THEN p.hi ELSE Len(s)
             runs == {n \in p.lo..top :
                        /\ i + n - 1 <= Len(s)
                        /\ \A k \in 0..(n - 1) : s[i + k] \in p.cs}
         IN  UNION {Ends(Tail(pat), s, i + n) : n \in runs}

\* re.match(pat + '$', s) for s without a newline
FullMatch(pat, s) == (Len(s) + 1) \in Ends(pat, s, 1)

\* re.match(pat, s)
PrefixMatch(pat, s) == Ends(pat, s, 1) # {}

\* -?\d{1,4}\s\d{3}\s\d{3}\s\d{2}\*?
AmountPat4 ==
    << Rep({"-"}, 0, 1), Rep(Digits, 1, 4), Rep(Space, 1, 1), Rep(Digits, 3, 3),
       Rep(Space, 1, 1), Rep(Digits, 3, 3), Rep(Space, 1, 1), Rep(Digits, 2, 2),
       Rep({"*"}, 0, 1) >>

\* -?\d{1,4}\s\d{3}\s\d{2}\*?
AmountPat3 ==
    << Rep({"-"}, 0, 1), Rep(Digits, 1, 4), Rep(Space, 1, 1), Rep(Digits, 3, 3),
       Rep(Space, 1, 1), Rep(Digits, 2, 2), Rep({"*"}, 0, 1) >>

\* -?\d{1,4}\s\d{2}\*?
AmountPat2 ==
    << Rep({"-"}, 0, 1), Rep(Digits, 1, 4), Rep(Space, 1, 1), Rep(Digits, 2, 2),
       Rep({"*"}, 0, 1) >>

\* -?\d{2}\*?
AmountPat1 == << Rep({"-"}, 0, 1), Rep(Digits, 2, 2), Rep({"*"}, 0, 1) >>

(***************************************************************************)
(* clean_amount                                                            *)
(***************************************************************************)
clean_amount(amount_str) ==
    LET cleaned  == Strip(Without(amount_str, {" ", ",", "*"}))
        negative == StartsWith(cleaned, <<"-">>)
        body     == IF negative THEN Tail(cleaned) ELSE cleaned
        pointed  == IF Len(body) >= 2 /\ IsDigitStr(body)
                    THEN SubSeq(body, 1, Len(body) - 2) \o <<".">>
                           \o SubSeq(body, Len(body) - 1, Len(body))
                    ELSE body
    IN  IF cleaned = <<>> THEN <<>>
        ELSE IF negative THEN <<"-">> \o pointed ELSE pointed

(***************************************************************************)
(* The shape cascade of try_extract_at, which extract_amounts_from_line    *)
(* and parse_earnings_section repeat inline: the number of tokens of the   *)
(* first shape, tried 4, 3, 2, 1, that matches at 0-based index start_idx; *)
(* 0 when none does.                                                       *)
(***************************************************************************)
Potential(tokens, start_idx, n) == Join(Slice(tokens, start_idx, start_idx + n))

\* the cascade tried from the shortest shape to the longest
ShapeAtShortestFirst(tokens, start_idx) ==
    IF start_idx >= Len(tokens) THEN 0
    ELSE IF FullMatch(AmountPat1, tokens[start_idx + 1]) THEN 1
    ELSE IF /\ start_idx + 1 < Len(tokens)
            /\ FullMatch(AmountPat2, Potential(tokens, start_idx, 2)) THEN 2
    ELSE IF /\ start_idx + 2 < Len(tokens)
            /\ FullMatch(AmountPat3, Potential(tokens, start_idx, 3)) THEN 3
    ELSE IF /\ start_idx + 3 < Len(tokens)
            /\ FullMatch(AmountPat4, Potential(tokens, start_idx, 4)) THEN 4
    ELSE 0

ShapeAt(tokens, start_idx) ==
    IF start_idx >= Len(tokens) THEN 0
    ELSE IF /\ start_idx + 3 < Len(tokens)
            /\ FullMatch(AmountPat4, Potential(tokens, start_idx, 4)) THEN 4
    ELSE IF /\ start_idx + 2 < Len(tokens)
            /\ FullMatch(AmountPat3, Potential(tokens, start_idx, 3)) THEN 3
    ELSE IF /\ start_idx + 1 < Len(tokens)
            /\ FullMatch(AmountPat2, Potential(tokens, start_idx, 2)) THEN 2
    ELSE IF FullMatch(AmountPat1, tokens[start_idx + 1]) THEN 1
    ELSE 0

try_extract_at(tokens, start_idx) ==
    LET n == ShapeAt(tokens, start_idx)
    IN  IF n = 0 THEN None ELSE clean_amount(Potential(tokens, start_idx, n))

\* the loop's body with an index that steps over one token of the amount
ScanBodyOneToken(tokens, st) ==
    LET n == ShapeAt(tokens, st.idx)
    IN  IF n > 0
        THEN [idx     |-> st.idx + 1,
              amounts |-> Append(st.amounts, clean_amount(Potential(tokens, st.idx, n))),
              cnn     |-> 0,
              brk     |-> FALSE]
        ELSE IF st.cnn + 1 >= 2
        THEN [st EXCEPT !.cnn = st.cnn + 1, !.brk = TRUE]
        ELSE [st EXCEPT !.cnn = st.cnn + 1, !.idx = st.idx + 1]

(***************************************************************************)
(* One iteration of the amount-collecting loop of parse_earnings_section.  *)
(* st holds the loop's locals; brk says that the loop has hit its break.   *)
(***************************************************************************)
ScanBody(tokens, st) ==
    LET n == ShapeAt(tokens, st.idx)
    IN  IF n > 0
        THEN [idx     |-> st.idx + n,
              amounts |-> Append(st.amounts, clean_amount(Potential(tokens, st.idx, n))),
              cnn     |-> 0,
              brk     |-> FALSE]
        ELSE IF st.cnn + 1 >= 2
        THEN [st EXCEPT !.cnn = st.cnn + 1, !.brk = TRUE]
        ELSE [st EXCEPT !.cnn = st.cnn + 1, !.idx = st.idx + 1]

ScanInit == [idx |-> 0, amounts |-> <<>>, cnn |-> 0, brk |-> FALSE]

\* the whole loop: the amounts collected from the tokens
RECURSIVE ScanFrom(_, _)
ScanFrom(tokens, st) ==
    IF st.brk \/ st.idx >= Len(tokens) THEN st.amounts
    ELSE Let(ScanBody(tokens, st), LAMBDA after : ScanFrom(tokens, after))

CollectAmounts(tokens) == ScanFrom(tokens, ScanInit)

(***************************************************************************)
(* Dictionaries: functions from keys (strings) to values.                  *)
(***************************************************************************)
EmptyDict == <<>>

Put(d, k, v) == [x \in (DOMAIN d) \cup {k} |-> IF x = k THEN v ELSE d[x]]

\* d.update(e)
Update(d, e) == [x \in (DOMAIN d) \cup (DOMAIN e) |-> IF x \in DOMAIN e THEN e[x] ELSE d[x]]

\* d.get(k)
Get(d, k) == IF k \in DOMAIN d THEN d[k] ELSE None

\* f"{k} YTD"
YTD(k) == k \o <<" ", "Y", "T", "D">>

(***************************************************************************)
(* extract_first_amount_from_line and extract_amounts_from_line            *)
(***************************************************************************)
\* the text of the line after the description, stripped
Remainder(line, description) ==
    IF description # <<>> /\ Contains(line, description)
    THEN Strip(AfterFirst(line, description))
    ELSE Strip(line)

\* the cascade of extract_first_amount_from_line: 3, 2, 1 tokens at index 0
FirstShape(tokens) ==
    IF Len(tokens) >= 3 /\ FullMatch(AmountPat3, Join(Slice(tokens, 0, 3))) THEN 3
    ELSE IF Len(tokens) >= 2 /\ FullMatch(AmountPat2, Join(Slice(tokens, 0, 2))) THEN 2
    ELSE IF Len(tokens) >= 1 /\ FullMatch(AmountPat1, tokens[1]) THEN 1
    ELSE 0

extract_first_amount_from_line(line, description) ==
    Let(Split(Remainder(line, description)), LAMBDA tokens :
        LET n == FirstShape(tokens)
        IN  IF tokens = <<>> \/ n = 0 THEN None
            ELSE clean_amount(Join(Slice(tokens, 0, n))))

\* the while loop that looks for the first amount: the first index at or
\* after idx at which a shape matches, Len(tokens) when there is none
RECURSIVE FirstAmountIdx(_, _)
FirstAmountIdx(tokens, idx) ==
    IF idx >= Len(tokens) THEN Len(tokens)
    ELSE IF ShapeAt(tokens, idx) > 0 THEN idx
    ELSE FirstAmountIdx(tokens, idx + 1)

\* <<this_period, ytd>>
extract_amounts_from_line(line, description) ==
    Let(Split(Remainder(line, description)), LAMBDA tokens :
        Let(FirstAmountIdx(tokens, 0), LAMBDA idx :
            IF tokens = <<>> \/ idx >= Len(tokens) THEN <<None, None>>
            ELSE Let(idx + ShapeAt(tokens, idx), LAMBDA this_period_end_idx :
                     << clean_amount(Join(Slice(tokens, idx, this_period_end_idx))),
                        try_extract_at(tokens, this_period_end_idx) >>)))

(***************************************************************************)
(* parse_earnings_section, one line at a time                              *)
(***************************************************************************)
\* the line that starts the earnings section
IsEarningsHeader(line) ==
    /\ Contains(Lower(line), <<"r", "a", "t", "e">>)
    /\ Contains(Lower(line), <<"h", "o", "u", "r", "s">>)
    /\ Contains(Lower(line), <<"t", "h", "i", "s", " ", "p", "e", "r", "i", "o", "d">>)

\* no line ends the earnings section
NeverEarningsExit(line) == FALSE

\* a keyword that ends the earnings section
IsEarningsExit(line) ==
    \E keyword \in {<<"G", "r", "o", "s", "s", " ", "P", "a", "y">>, <<"F", "e", "d", "e", "r", "a", "l", " ", "I", "n", "c", "o", "m", "e", " ", "T", "a", "x">>, <<"D", "e", "d", "u", "c", "t", "i", "o", "n", "s">>, <<"N", "e", "t", " ", "C", "h", "e", "c", "k">>} :
        Contains(line, keyword)

\* re.match(r'^([A-Za-z\s]+)', line).group(1).strip(); None without a match
Description(line) ==
    LET ends == Ends(<<Rep(Letters \cup Space, 1, Len(line))>>, line, 1)
    IN  IF ends = {} THEN None ELSE Strip(SubSeq(line, 1, SetMax(ends) - 1))

EarningsKey(description) == <<"E", "a", "r", "n", "i", "n", "g", "s", " ">> \o description

\* three amounts read as rate, hours and this period
EarningsAssignRateHours(earnings, description, amounts) ==
    LET key == EarningsKey(description)
    IN  IF Len(amounts) >= 4
        THEN Put(Put(earnings, key, amounts[3]), YTD(key), amounts[4])
        ELSE IF Len(amounts) = 2
        THEN Put(Put(earnings, key, amounts[1]), YTD(key), amounts[2])
        ELSE IF Len(amounts) = 1
        THEN Put(earnings, YTD(key), amounts[1])
        ELSE IF Len(amounts) = 3
        THEN Put(earnings, key, amounts[3])
        ELSE earnings

\* the fields a line's amounts are assigned to
EarningsAssign(earnings, description, amounts) ==
    LET key == EarningsKey(description)
    IN  IF Len(amounts) >= 4
        THEN Put(Put(earnings, key, amounts[3]), YTD(key), amounts[4])
        ELSE IF Len(amounts) = 2
        THEN Put(Put(earnings, key, amounts[1]), YTD(key), amounts[2])
        ELSE IF Len(amounts) = 1
        THEN Put(earnings, YTD(key), amounts[1])
        ELSE IF Len(amounts) = 3
        THEN Put(Put(earnings, key, amounts[2]), YTD(key), amounts[3])
        ELSE earnings

\* the body of the loop over the lines: the flag and the dictionary after the
\* line, and how the loop goes on: "next", "break", or "raise" (str.split
\* raises ValueError on the empty separator)
EarningsLine(line, in_earnings, earnings) ==
    Let(Description(line), LAMBDA description :
    LET stay(ctl) == [in_earnings |-> in_earnings, earnings |-> earnings, ctl |-> ctl]
    IN  IF IsEarningsHeader(line)
        THEN [in_earnings |-> TRUE, earnings |-> earnings, ctl |-> "next"]
        ELSE IF in_earnings /\ IsEarningsExit(line) THEN stay("break")
        ELSE IF ~(in_earnings /\ Strip(line) # <<>>) THEN stay("next")
        ELSE IF description = None THEN stay("next")
        ELSE IF description \in {<<"N", "e", "t", " ", "P", "a", "y">>, <<"N", "e", "t", " ", "C", "h", "e", "c", "k">>} THEN stay("next")
        ELSE IF description = <<>> THEN stay("raise")
        ELSE Let(CollectAmounts(Split(Strip(AfterFirst(line, description)))), LAMBDA amounts :
                 [in_earnings |-> in_earnings,
                  earnings    |-> EarningsAssign(earnings, description, amounts),
                  ctl         |-> "next"]))

(***************************************************************************)
(* parse_deductions_section, one line at a time                            *)
(***************************************************************************)
SocialSecurityTax == <<"S", "o", "c", "i", "a", "l", " ", "S", "e", "c", "u", "r", "i", "t", "y", " ", "T", "a", "x">>

RsuNetValue == <<"R", "s", "u", " ", "N", "e", "t", " ", "V", "a", "l", "u", "e">>

Espp == <<"E", "s", "p", "p">>

deduction_names ==
    << <<"F", "e", "d", "e", "r", "a", "l", " ", "I", "n", "c", "o", "m", "e", " ", "T", "a", "x">>,
       SocialSecurityTax,
       <<"M", "e", "d", "i", "c", "a", "r", "e", " ", "T", "a", "x">>,
       <<"M", "e", "d", "i", "c", "a", "r", "e", " ", "S", "u", "r", "t", "a", "x">>,
       <<"G", "A", " ", "S", "t", "a", "t", "e", " ", "I", "n", "c", "o", "m", "e", " ", "T", "a", "x">>,
       RsuNetValue,
       <<"B", "a", "s", "i", "c", " ", "L", "i", "f", "e", " ", "I", "n", "c">>,
       <<"A", "c", "c", "i", "d", "e", "n", "t">>,
       <<"A", "d", "&", "D", " ", "S", "p", "o", "u", "s", "e">>,
       <<"A", "d", "&", "D">>,
       <<"A", "f", "t", "e", "r", "-", "T", "a", "x", " ", "D", "e", "d">>,
       <<"C", "r", "i", "t", " ", "I", "l", "l", " ", "S", "p", "o", "u", "s", "e">>,
       <<"C", "r", "i", "t", "i", "c", "a", "l", " ", "I", "l", "l", "n", "e", "s">>,
       <<"D", "e", "n", "t", "a", "l", " ", "P", "r", "e", "t", "a", "x">>,
       <<"E", "e", " ", "L", "i", "f", "e">>,
       Espp,
       <<"H", "s", "a">>,
       <<"L", "e", "g", "a", "l">>,
       <<"M", "e", "d", "i", "c", "a", "l", " ", "P", "r", "e", "t", "a", "x">>,
       <<"N", "o", "n", " ", "C", "a", " ", "S", "t", "d">>,
       <<"R", "o", "t", "h", " ", "4", "0", "1", "K">>,
       <<"S", "p", "o", "u", "s", "e", " ", "L", "i", "f", "e">>,
       <<"V", "i", "s", "i", "o", "n", " ", "P", "r", "e", "t", "a", "x">> >>

benefit_deductions_that_may_be_ytd_only ==
    { <<"B", "a", "s", "i", "c", " ", "L", "i", "f", "e", " ", "I", "n", "c">>, <<"A", "c", "c", "i", "d", "e", "n", "t">>, <<"A", "d", "&", "D">>, <<"A", "d", "&", "D", " ", "S", "p", "o", "u", "s", "e">>, <<"A", "f", "t", "e", "r", "-", "T", "a", "x", " ", "D", "e", "d">>,
      <<"C", "r", "i", "t", " ", "I", "l", "l", " ", "S", "p", "o", "u", "s", "e">>, <<"C", "r", "i", "t", "i", "c", "a", "l", " ", "I", "l", "l", "n", "e", "s">>, <<"D", "e", "n", "t", "a", "l", " ", "P", "r", "e", "t", "a", "x">>, <<"E", "e", " ", "L", "i", "f", "e">>, <<"H", "s", "a">>,
      <<"L", "e", "g", "a", "l">>, <<"M", "e", "d", "i", "c", "a", "l", " ", "P", "r", "e", "t", "a", "x">>, <<"N", "o", "n", " ", "C", "a", " ", "S", "t", "d">>, <<"R", "o", "t", "h", " ", "4", "0", "1", "K">>, <<"S", "p", "o", "u", "s", "e", " ", "L", "i", "f", "e">>,
      <<"V", "i", "s", "i", "o", "n", " ", "P", "r", "e", "t", "a", "x">> }

always_ytd_when_single == {RsuNetValue}

DeductionsKey(deduction_name) == <<"D", "e", "d", "u", "c", "t", "i", "o", "n", "s", " ">> \o deduction_name

\* a line that sets the YTD-only flag
IsYtdOnlySentinel(line) ==
    \/ Contains(line, <<"O", "t", "h", "e", "r", " ", "B", "e", "n", "e", "f", "i", "t", "s", " ", "a", "n", "d">>)
    \/ Contains(Lower(line), <<"t", "h", "i", "s", " ", "p", "e", "r", "i", "o", "d", " ", "t", "o", "t", "a", "l", " ", "t", "o", " ", "d", "a", "t", "e">>)

\* the checks without the one for a date
EsppSkippedNoDate(line, pos) ==
    LET text_after == Slice(line, pos + 4, pos + 20)
        n          == Len(text_after)
    IN  \/ Slice(line, pos, pos + 11) = <<"E", "s", "p", "p", " ", "R", "e", "f", "u", "n", "d">>
        \/ PrefixMatch(<<Rep(Space, 1, n), Rep(Digits, 1, n), Rep(Space, 1, n),
                         Rep(Digits, 1, n)>>, text_after)

\* the checks that keep the 'Espp' found at pos out of the matches
EsppSkipped(line, pos) ==
    LET text_after == Slice(line, pos + 4, pos + 20)
        n          == Len(text_after)
    IN  \/ Slice(line, pos, pos + 11) = <<"E", "s", "p", "p", " ", "R", "e", "f", "u", "n", "d">>
        \* \s+\d+/
        \/ PrefixMatch(<<Rep(Space, 1, n), Rep(Digits, 1, n), Rep({"/"}, 1, 1)>>, text_after)
        \* \s+\d+\s+\d+
        \/ PrefixMatch(<<Rep(Space, 1, n), Rep(Digits, 1, n), Rep(Space, 1, n),
                         Rep(Digits, 1, n)>>, text_after)

\* the (pos, deduction_name) pairs appended to matches
MatchSet(line) ==
    { <<Find(line, deduction_names[k]), deduction_names[k]>> :
        k \in {j \in 1..Len(deduction_names) :
                 /\ Contains(line, deduction_names[j])
                 /\ ~(/\ deduction_names[j] = Espp
                      /\ EsppSkipped(line, Find(line, Espp)))} }

\* the order of matches.sort(): by position, then by name; two names found at
\* one position are each a prefix of the rest of the line, so one is a prefix
\* of the other and, as strings are ordered, the shorter one comes first
MatchBefore(m, o) == m[1] < o[1] \/ (m[1] = o[1] /\ Len(m[2]) < Len(o[2]))

RECURSIVE SortMatches(_)
SortMatches(M) ==
    IF M = {} THEN <<>>
    ELSE LET first == CHOOSE m \in M : \A o \in M \ {m} : MatchBefore(m, o)
         IN  <<first>> \o SortMatches(M \ {first})

\* no special handling of Social Security Tax
NeverSocialSecurityYtd(deduction_name, pair) == FALSE

\* the special handling of Social Security Tax: one value, without a minus
\* sign, is the YTD value
IsSocialSecurityYtd(deduction_name, pair) ==
    /\ deduction_name = SocialSecurityTax
    /\ Truthy(pair[1]) /\ ~Truthy(pair[2])
    /\ ~StartsWith(pair[1], <<"-">>)

\* no label counts as processed
NeverProcessed(deductions, deduction_name) == FALSE

\* the label has already contributed an entry
AlreadyProcessed(deductions, deduction_name) ==
    \/ DeductionsKey(deduction_name) \in DOMAIN deductions
    \/ YTD(DeductionsKey(deduction_name)) \in DOMAIN deductions

\* no single value counts as a first encounter
NeverFirstEncounter(deductions, deduction_name) == FALSE

\* the label has no year-to-date entry yet
FirstEncounter(deductions, deduction_name) ==
    YTD(DeductionsKey(deduction_name)) \notin DOMAIN deductions

\* the body of the loop over the matches of a line; st holds the dictionary
\* and the flag in_other_benefits_or_ytd_only_section
ProcessMatch(line, deduction_name, st) ==
    Let(extract_amounts_from_line(line, deduction_name), LAMBDA pair :
    LET key  == DeductionsKey(deduction_name)
        ss   == IsSocialSecurityYtd(deduction_name, pair)
        tp1  == IF ss THEN None ELSE pair[1]
        ytd1 == IF ss THEN pair[1] ELSE pair[2]
        single == Truthy(tp1) /\ ~Truthy(ytd1)
        toYtd  == /\ single
                  /\ \/ deduction_name \in always_ytd_when_single
                     \/ /\ deduction_name \in benefit_deductions_that_may_be_ytd_only
                        /\ \/ st.ytd_only
                           \/ FirstEncounter(st.deductions, deduction_name)
        this_period == IF toYtd THEN None ELSE tp1
        ytd         == IF toYtd THEN tp1 ELSE ytd1
        d1 == IF Truthy(this_period) THEN Put(st.deductions, key, this_period)
              ELSE st.deductions
        d2 == IF Truthy(ytd) THEN Put(d1, YTD(key), ytd) ELSE d1
    IN  IF AlreadyProcessed(st.deductions, deduction_name)
        THEN st
        ELSE [deductions |-> d2,
              ytd_only   |-> \/ st.ytd_only
                             \/ /\ deduction_name \in benefit_deductions_that_may_be_ytd_only
                                /\ Truthy(ytd)
                                /\ ~Truthy(Get(d2, key))])

RECURSIVE ProcessMatches(_, _, _)
ProcessMatches(line, matches, st) ==
    IF matches = <<>> THEN st
    ELSE Let(ProcessMatch(line, Head(matches)[2], st), LAMBDA after :
             ProcessMatches(line, Tail(matches), after))

\* the body of the loop over the lines
DeductionsLine(line, deductions, ytd_only) ==
    Let(SortMatches(MatchSet(line)), LAMBDA matches :
        ProcessMatches(line, matches,
                       [deductions |-> deductions,
                        ytd_only   |-> ytd_only \/ IsYtdOnlySentinel(line)]))

(***************************************************************************)
(* extract_taxable_wages                                                   *)
(***************************************************************************)
\* s.split(sep)[1] for a sep that occurs in s
SecondPart(s, sep) ==
    LET rest == AfterFirst(s, sep)
    IN  IF Contains(rest, sep) THEN Slice(rest, 0, Find(rest, sep)) ELSE rest

\* s.split(sep)[-1]
LastPart(s, sep) ==
    IF Contains(s, sep) THEN Slice(s, SetMax(Occurrences(s, sep)) + Len(sep), Len(s)) ELSE s

\* the amount after ' are ' on the line
WagesAfterAre(line) ==
    LET amount_part == Strip(Without(Strip(SecondPart(Lower(line), <<" ", "a", "r", "e", " ">>)), {"$"}))
    IN  IF Contains(Lower(line), <<" ", "a", "r", "e", " ">>) /\ amount_part # <<>>
        THEN extract_first_amount_from_line(amount_part, <<>>)
        ELSE None

\* the amount after the last '$' of the line
WagesAfterDollar(line) ==
    IF Contains(line, <<"$">>)
    THEN extract_first_amount_from_line(Strip(LastPart(Strip(line), <<"$">>)), <<>>)
    ELSE None

\* the first amount after a '$' on the lines j .. stop-1 (0-based)
RECURSIVE WagesOnNextLines(_, _, _)
WagesOnNextLines(lines, j, stop) ==
    IF j >= stop THEN None
    ELSE IF Truthy(WagesAfterDollar(lines[j + 1])) THEN WagesAfterDollar(lines[j + 1])
    ELSE WagesOnNextLines(lines, j + 1, stop)

\* what the marker line i (0-based) yields
WagesAt(lines, i) ==
    LET line == lines[i + 1]
        stop == IF i + 4 < Len(lines) THEN i + 4 ELSE Len(lines)
    IN  IF Truthy(WagesAfterAre(line)) THEN WagesAfterAre(line)
        ELSE IF Truthy(WagesAfterDollar(line)) THEN WagesAfterDollar(line)
        ELSE WagesOnNextLines(lines, i + 1, stop)

RECURSIVE WagesFrom(_, _)
WagesFrom(lines, i) ==
    IF i >= Len(lines) THEN None
    ELSE IF /\ Contains(Lower(lines[i + 1]), <<"f", "e", "d", "e", "r", "a", "l", " ", "t", "a", "x", "a", "b", "l", "e", " ", "w", "a", "g", "e", "s", " ", "t", "h", "i", "s", " ", "p", "e", "r", "i", "o", "d">>)
            /\ Truthy(WagesAt(lines, i))
    THEN WagesAt(lines, i)
    ELSE WagesFrom(lines, i + 1)

TaxableWagesKey == <<"T", "a", "x", "a", "b", "l", "e", " ", "W", "a", "g", "e", "s", " ", "T", "h", "i", "s", " ", "P", "e", "r", "i", "o", "d">>

extract_taxable_wages(lines) ==
    IF Truthy(WagesFrom(lines, 0)) THEN Put(EmptyDict, TaxableWagesKey, WagesFrom(lines, 0))
    ELSE EmptyDict

(***************************************************************************)
(* parse_other_benefits_section, one line at a time                        *)
(***************************************************************************)
EsppGlob == <<"E", "s", "p", "p", " ", "*">>

benefit_names == << <<"C", "u", "r", "r", "e", "n", "t", " ", "M", "a", "t", "c", "h">>, EsppGlob, <<"Y", "t", "d", " ", "4", "0", "1", "K", " ", "M", "a", "t", "c", "h">>, <<"S", "i", "c", "k", " ", "E", "a", "r", "n", "e", "d", " ", "B", "a", "l">> >>

BenefitsKey(matched_name) == <<"O", "t", "h", "e", "r", " ", "B", "e", "n", "e", "f", "i", "t", "s", " ">> \o matched_name

\* fnmatch.fnmatch for patterns of literal characters and '*'
RECURSIVE fnmatch(_, _)
fnmatch(candidate, pattern) ==
    IF pattern = <<>> THEN candidate = <<>>
    ELSE IF Head(pattern) = "*"
    THEN \E k \in 0..Len(candidate) :
            fnmatch(SubSeq(candidate, k + 1, Len(candidate)), Tail(pattern))
    ELSE /\ candidate # <<>>
         /\ Head(candidate) = Head(pattern)
         /\ fnmatch(Tail(candidate), Tail(pattern))

\* word.lstrip('-')
RECURSIVE LStripMinus(_)
LStripMinus(word) ==
    IF word # <<>> /\ Head(word) = "-" THEN LStripMinus(Tail(word)) ELSE word

\* a word of the candidate is a minus sign followed by digits
HasNegative(words) ==
    \E k \in 1..Len(words) :
        /\ StartsWith(words[k], <<"-">>)
        /\ IsDigitStr(Without(LStripMinus(words[k]), {" "}))

\* for 'Espp *': what the wildcard matched is only a number
NumericSuffix(candidate) ==
    /\ StartsWith(candidate, <<"E", "s", "p", "p", " ">>)
    /\ LET suffix == Slice(candidate, 5, Len(candidate))
       IN  /\ ~(\E k \in 1..Len(suffix) : suffix[k] \in {"/", "-"})
           /\ IsDigitStr(Without(suffix, {" "}))

\* the name a glob pattern matches on the line: the first candidate
\* words[i:j], i ascending, then j ascending, that passes the checks
GlobName(line, benefit_pattern) ==
    LET words == Split(line)
        n     == Len(words)
        ok    == { ij \in (0..(n - 1)) \X (1..n) :
                     /\ ij[2] >= ij[1] + 1
                     /\ ij[2] <= ij[1] + 4
                     /\ LET candidate == Join(Slice(words, ij[1], ij[2]))
                        IN  /\ fnmatch(candidate, benefit_pattern)
                            /\ ~HasNegative(Slice(words, ij[1], ij[2]))
                            /\ ~(benefit_pattern = EsppGlob /\ NumericSuffix(candidate)) }
        first == CHOOSE ij \in ok : \A o \in ok :
                     ij[1] < o[1] \/ (ij[1] = o[1] /\ ij[2] <= o[2])
    IN  IF ok = {} THEN None ELSE Join(Slice(words, first[1], first[2]))

\* matched_name for one pattern of benefit_names
MatchedName(line, benefit_pattern) ==
    IF \E k \in 1..Len(benefit_pattern) : benefit_pattern[k] \in {"*", "?", "["}
    THEN GlobName(line, benefit_pattern)
    ELSE IF Contains(line, benefit_pattern) THEN benefit_pattern ELSE None

\* the loop over benefit_names from the k-th pattern on
RECURSIVE BenefitsFrom(_, _, _)
BenefitsFrom(line, benefits, k) ==
    IF k > Len(benefit_names) THEN benefits
    ELSE LET matched_name == MatchedName(line, benefit_names[k])
             amount       == extract_first_amount_from_line(line, matched_name)
         IN  IF Truthy(matched_name)
             THEN IF Truthy(amount) THEN Put(benefits, BenefitsKey(matched_name), amount)
                  ELSE benefits
             ELSE BenefitsFrom(line, benefits, k + 1)

\* the body of the loop over the lines
BenefitsLine(line, benefits) == BenefitsFrom(line, benefits, 1)

(***************************************************************************)
(* extract_pay_period_dates, on the full text: the lines, each followed by *)
(* a newline.                                                              *)
(***************************************************************************)
RECURSIVE FullText(_)
FullText(lines) ==
    IF lines = <<>> THEN <<>> ELSE Head(lines) \o <<"\n">> \o FullText(Tail(lines))

\* \s*(\d{1,2}/\d{1,2}/\d{4}) matched at the start of rest: group 1, or None
DateAtStart(rest) ==
    LET blanks == SetMax({n \in 0..Len(rest) :
                            \A k \in 1..n : rest[k] \in Space \cup {"\n"}})
        ends   == Ends(<<Rep(Digits, 1, 2), Rep({"/"}, 1, 1), Rep(Digits, 1, 2),
                         Rep({"/"}, 1, 1), Rep(Digits, 4, 4)>>, rest, blanks + 1)
    IN  IF ends = {} THEN None ELSE SubSeq(rest, blanks + 1, SetMax(ends) - 1)

\* re.search(label + r'\s*(\d{1,2}/\d{1,2}/\d{4})', text): group 1 of the
\* leftmost match, or None
SearchDate(full_text, label) ==
    LET hits == {p \in Occurrences(full_text, label) :
                   DateAtStart(Slice(full_text, p + Len(label), Len(full_text))) # None}
    IN  IF hits = {} THEN None
        ELSE DateAtStart(Slice(full_text, SetMin(hits) + Len(label), Len(full_text)))

extract_pay_period_dates(full_text) ==
    Put(Put(Put(EmptyDict,
        <<"P", "a", "y", " ", "P", "e", "r", "i", "o", "d", " ", "B", "e", "g", "i", "n", "n", "i", "n", "g">>, SearchDate(full_text, <<"P", "e", "r", "i", "o", "d", " ", "B", "e", "g", "i", "n", "n", "i", "n", "g", ":">>)),
        <<"P", "a", "y", " ", "P", "e", "r", "i", "o", "d", " ", "E", "n", "d", "i", "n", "g">>, SearchDate(full_text, <<"P", "e", "r", "i", "o", "d", " ", "E", "n", "d", "i", "n", "g", ":">>)),
        <<"P", "a", "y", " ", "D", "a", "t", "e">>, SearchDate(full_text, <<"P", "a", "y", " ", "D", "a", "t", "e", ":">>))

\* parse_other_section
parse_other_section == EmptyDict

(***************************************************************************)
(* Decimal rendering of integers, for the lexer's inputs.                  *)
(***************************************************************************)
DigitChar(d) ==
    CASE d = 0 -> "0" [] d = 1 -> "1" [] d = 2 -> "2" [] d = 3 -> "3" [] d = 4 -> "4"
      [] d = 5 -> "5" [] d = 6 -> "6" [] d = 7 -> "7" [] d = 8 -> "8" [] d = 9 -> "9"

RECURSIVE NatStr(_)
NatStr(n) == IF n < 10 THEN <<DigitChar(n)>> ELSE NatStr(n \div 10) \o <<DigitChar(n % 10)>>

TwoDigits(c) == <<DigitChar(c \div 10), DigitChar(c % 10)>>

ThreeDigits(c) == <<DigitChar(c \div 100)>> \o TwoDigits(c % 100)

\* the dollars grouped every three digits from the right
RECURSIVE Groups(_)
Groups(d) == IF d < 1000 THEN <<NatStr(d)>> ELSE Groups(d \div 1000) \o <<ThreeDigits(d % 1000)>>

\* n hundredths as the statement prints them: the dollar groups, when there
\* are dollars, then the two cents digits
Render(n) == (IF n \div 100 = 0 THEN <<>> ELSE Groups(n \div 100)) \o <<TwoDigits(n % 100)>>

\* n/100 with two decimals
Format(n) == NatStr(n \div 100) \o <<".">> \o TwoDigits(n % 100)

(***************************************************************************)
(* validate_and_fix_ytd_values.  A float is modelled by its sign and its   *)
(* magnitude in hundredths, which is exact for the strings the parsers and *)
(* str() produce (at most two decimals, fewer than sixteen digits).        *)
(***************************************************************************)
DigitVal(c) ==
    CASE c = "0" -> 0 [] c = "1" -> 1 [] c = "2" -> 2 [] c = "3" -> 3 [] c = "4" -> 4
      [] c = "5" -> 5 [] c = "6" -> 6 [] c = "7" -> 7 [] c = "8" -> 8 [] c = "9" -> 9

RECURSIVE NatVal(_)
NatVal(s) == IF s = <<>> THEN 0 ELSE 10 * NatVal(SubSeq(s, 1, Len(s) - 1)) + DigitVal(s[Len(s)])

\* no float: None as last_valid_value, and the ValueError of float()
NoFloat == [neg |-> FALSE, mag |-> -1]

\* float(s), NoFloat for a ValueError; s is [sign] digits [. digits] with at
\* least one digit and at most two decimals, surrounded by optional blanks
float(s) ==
    LET t      == Strip(s)
        signed == t # <<>> /\ t[1] \in {"-", "+"}
        u      == IF signed THEN Tail(t) ELSE t
        dots   == {k \in 1..Len(u) : u[k] = "."}
        whole  == IF dots = {} THEN u ELSE SubSeq(u, 1, SetMin(dots) - 1)
        frac   == IF dots = {} THEN <<>> ELSE SubSeq(u, SetMin(dots) + 1, Len(u))
        cents  == IF Len(frac) = 0 THEN 0
                  ELSE IF Len(frac) = 1 THEN 10 * NatVal(frac)
                  ELSE NatVal(frac)
    IN  IF /\ Cardinality(dots) <= 1
           /\ Len(whole) + Len(frac) >= 1
           /\ Len(frac) <= 2
           /\ \A k \in 1..Len(whole) : whole[k] \in Digits
           /\ \A k \in 1..Len(frac) : frac[k] \in Digits
        THEN [neg |-> signed /\ t[1] = "-", mag |-> 100 * NatVal(whole) + cents]
        ELSE NoFloat

\* str(x) of the whole part of x only
strWhole(x) ==
    (IF x.neg THEN <<"-">> ELSE <<>>) \o NatStr(x.mag \div 100) \o <<".", "0">>

\* str(x) for a float x
str(x) ==
    LET cents == x.mag % 100
        frac  == IF cents % 10 = 0 THEN <<DigitChar(cents \div 10)>> ELSE TwoDigits(cents)
    IN  (IF x.neg THEN <<"-">> ELSE <<>>) \o NatStr(x.mag \div 100) \o <<".">> \o frac

\* the names of the YTD fields of the batch
ytd_fields(data) ==
    {key \in UNION {DOMAIN data[k] : k \in 1..Len(data)} : EndsWith(key, <<" ", "Y", "T", "D">>)}

\* the loop's body replacing a value that decreased by the last valid one
ValidateRecordClamped(record, ytd_field, last_valid_value) ==
    LET current_value_str == IF ytd_field \in DOMAIN record THEN record[ytd_field] ELSE <<>>
        current_value     == float(Without(current_value_str, {","}))
    IN  IF current_value_str # <<>> /\ Strip(current_value_str) # <<>>
        THEN IF /\ current_value # NoFloat
                /\ last_valid_value # NoFloat
                /\ current_value.mag < last_valid_value.mag - 1
             THEN [record |-> Put(record, ytd_field, str(last_valid_value)),
                   last   |-> last_valid_value]
             ELSE [record |-> record,
                   last   |-> IF current_value = NoFloat THEN last_valid_value
                              ELSE current_value]
        ELSE IF last_valid_value # NoFloat
        THEN [record |-> Put(record, ytd_field, str(last_valid_value)),
              last   |-> last_valid_value]
        ELSE [record |-> record, last |-> last_valid_value]

\* the loop's body forgetting last_valid_value once it has filled a record
ValidateRecordForgetful(record, ytd_field, last_valid_value) ==
    LET current_value_str == IF ytd_field \in DOMAIN record THEN record[ytd_field] ELSE <<>>
        current_value     == float(Without(current_value_str, {","}))
    IN  IF current_value_str # <<>> /\ Strip(current_value_str) # <<>>
        THEN [record |-> record,
              last   |-> IF current_value = NoFloat THEN last_valid_value ELSE current_value]
        ELSE IF last_valid_value # NoFloat
        THEN [record |-> Put(record, ytd_field, str(last_valid_value)),
              last   |-> NoFloat]
        ELSE [record |-> record, last |-> last_valid_value]

\* the body of the loop over the records: the record and last_valid_value
\* after it
ValidateRecord(record, ytd_field, last_valid_value) ==
    LET current_value_str == IF ytd_field \in DOMAIN record THEN record[ytd_field] ELSE <<>>
        current_value     == float(Without(current_value_str, {","}))
    IN  IF current_value_str # <<>> /\ Strip(current_value_str) # <<>>
        THEN [record |-> record,
              last   |-> IF current_value = NoFloat THEN last_valid_value ELSE current_value]
        ELSE IF last_valid_value # NoFloat
        THEN [record |-> Put(record, ytd_field, str(last_valid_value)),
              last   |-> last_valid_value]
        ELSE [record |-> record, last |-> last_valid_value]

\* the loop over the records for one field, from record k on
RECURSIVE ValidateField(_, _, _, _)
ValidateField(data, ytd_field, k, last_valid_value) ==
    IF k > Len(data) THEN data
    ELSE Let(ValidateRecord(data[k], ytd_field, last_valid_value), LAMBDA r :
             Let([data EXCEPT ![k] = r.record], LAMBDA after :
                 ValidateField(after, ytd_field, k + 1, r.last)))

\* the loop over the fields; they are visited in the order of a set, which
\* the result does not depend on, each field writing only its own key
RECURSIVE ValidateFields(_, _)
ValidateFields(data, fields) ==
    IF fields = {} THEN data
    ELSE Let(CHOOSE f \in fields : TRUE, LAMBDA ytd_field :
             Let(ValidateField(data, ytd_field, 1, NoFloat), LAMBDA after :
                 ValidateFields(after, fields \ {ytd_field})))

validate_and_fix_ytd_values(data) ==
    IF data = <<>> THEN data ELSE ValidateFields(data, ytd_fields(data))

(***************************************************************************)
(* State.                                                                  *)
(***************************************************************************)
VARIABLES
    \* amount lexer: the token list, the integer it renders (0: none), the
    \* argument and result of try_extract_at, and the locals of the
    \* amount-collecting loop
    tokens, num, start_idx, res, idx, amounts, consecutive_non_numbers, lexpc,
    \* extract_paystub_data: the lines of the document's text, the parser that
    \* is running, the index of its next line, the parsers' locals and the
    \* record being assembled
    text, pc, line_no, in_earnings, earnings, deductions,
    in_other_benefits_or_ytd_only_section, benefits, data,
    \* process_pdfs: the batch, the batch as it was before the validator's
    \* latest run, the number of runs, the files of the directory and the
    \* number of them that the loop has been through
    results, previous, runs, pdf_files, file_no

lexVars == <<tokens, num, start_idx, res, idx, amounts, consecutive_non_numbers, lexpc>>

docVars == <<text, pc, line_no, in_earnings, earnings, deductions,
             in_other_benefits_or_ytd_only_section, benefits, data>>

ytdVars == <<results, previous, runs, pdf_files, file_no>>

vars == <<lexVars, docVars, ytdVars>>

\* the parts of the state a specification does not use
LexIdle ==
    /\ tokens = <<>> /\ num = 0 /\ start_idx = 0 /\ res = None /\ idx = 0
    /\ amounts = <<>> /\ consecutive_non_numbers = 0 /\ lexpc = "idle"

DocIdle ==
    /\ text = <<>> /\ pc = "idle" /\ line_no = 0 /\ in_earnings = FALSE
    /\ earnings = EmptyDict /\ deductions = EmptyDict
    /\ in_other_benefits_or_ytd_only_section = FALSE
    /\ benefits = EmptyDict /\ data = EmptyDict

YtdIdle ==
    /\ results = <<>> /\ previous = <<>> /\ runs = 0
    /\ pdf_files = <<>> /\ file_no = 0

(***************************************************************************)
(* The lexer on its own: a token list is drawn, try_extract_at is called   *)
(* on it at some index, and the amount-collecting loop runs over it.       *)
(***************************************************************************)
MaxTokens == 4

SmallAmounts == 120

TokenAlphabet ==
    { <<"5">>, <<"5", "0">>, <<"5", "0", "0">>, <<"5", "0", "0", "0">>,
      <<"-", "5", "0">>, <<"5", "0", "*">>, <<"x">> }

RECURSIVE TokenLists(_)
TokenLists(n) ==
    IF n = 0 THEN {<<>>}
    ELSE LET shorter == TokenLists(n - 1)
         IN  shorter \cup {Append(l, t) : l \in {s \in shorter : Len(s) = n - 1},
                                            t \in TokenAlphabet}

\* '1 234 56 78 90'
GreedyTokens == << <<"1">>, <<"2", "3", "4">>, <<"5", "6">>, <<"7", "8">>, <<"9", "0">> >>

Rendered ==
    (1..SmallAmounts) \cup
    { 999, 1000, 1001, 9999, 10000, 99999, 100000, 100001, 123456, 999999, 1000000,
      1000001, 9999999, 10000000, 12345678, 99999999, 100000000, 104096850,
      123456789, 999999999 }

LexInit ==
    /\ \/ num \in Rendered /\ tokens = Render(num)
       \/ num = 0 /\ tokens \in TokenLists(MaxTokens) \cup {GreedyTokens}
    /\ start_idx = 0
    /\ res = None
    /\ idx = 0
    /\ amounts = <<>>
    /\ consecutive_non_numbers = 0
    /\ lexpc = "ready"
    /\ DocIdle
    /\ YtdIdle

\* a call try_extract_at(start_idx)
TryExtract ==
    /\ lexpc = "ready"
    /\ \E s \in 0..Len(tokens) :
          /\ start_idx' = s
          /\ res' = try_extract_at(tokens, s)
    /\ lexpc' = "tried"
    /\ UNCHANGED <<tokens, num, idx, amounts, consecutive_non_numbers>>
    /\ UNCHANGED <<docVars, ytdVars>>

\* one iteration of the amount-collecting loop
ScanStep ==
    /\ lexpc \in {"ready", "scan"}
    /\ idx < Len(tokens)
    /\ LET st == ScanBody(tokens, [idx |-> idx, amounts |-> amounts,
                                   cnn |-> consecutive_non_numbers, brk |-> FALSE])
       IN  /\ idx' = st.idx
           /\ amounts' = st.amounts
           /\ consecutive_non_numbers' = st.cnn
           /\ lexpc' = IF st.brk THEN "done" ELSE "scan"
    /\ UNCHANGED <<tokens, num, start_idx, res>>
    /\ UNCHANGED <<docVars, ytdVars>>

\* the loop ends at the end of the tokens
ScanExit ==
    /\ lexpc \in {"ready", "scan"}
    /\ idx >= Len(tokens)
    /\ lexpc' = "done"
    /\ UNCHANGED <<tokens, num, start_idx, res, idx, amounts, consecutive_non_numbers>>
    /\ UNCHANGED <<docVars, ytdVars>>

LexNext == TryExtract \/ ScanStep \/ ScanExit

SpecLex == LexInit /\ [][LexNext]_vars

(***************************************************************************)
(* One document through extract_paystub_data: the parsers run one after    *)
(* the other over all the lines of the text.                               *)
(***************************************************************************)
MaxLines == 2

LineCatalog ==
    { <<>>,
      <<"r", "a", "t", "e", " ", "h", "o", "u", "r", "s", " ", "t", "h", "i", "s", " ", "p", "e", "r", "i", "o", "d", " ", "y", "e", "a", "r", " ", "t", "o", " ", "d", "a", "t", "e">>,
      <<"R", "e", "g", "u", "l", "a", "r", " ", "5", "0", "0", "0", " ", "0", "0", " ", "8", "0", " ", "0", "0", " ", "5", " ", "0", "0", "0", " ", "0", "0", " ", "5", " ", "0", "0", "0", " ", "0", "0">>,
      <<"O", "v", "e", "r", "t", "i", "m", "e", " ", "8", " ", "0", "0", " ", "1", "2", "0", " ", "0", "0", " ", "1", " ", "1", "2", "0", " ", "0", "0">>,
      <<"R", "s", "u", " ", "1", " ", "2", "3", "4", " ", "5", "6", " ", "7", "8", " ", "9", "0">>,
      <<"B", "o", "n", "u", "s", " ", "5", "0">>,
      <<" ", "5", "0", " ", "0", "0">>,
      <<"G", "r", "o", "s", "s", " ", "P", "a", "y", " ", "5", " ", "0", "0", "0", " ", "0", "0">>,
      <<"F", "e", "d", "e", "r", "a", "l", " ", "I", "n", "c", "o", "m", "e", " ", "T", "a", "x", " ", "-", "5", "0", "0", " ", "0", "0", " ", "1", " ", "5", "0", "0", " ", "0", "0">>,
      <<"S", "o", "c", "i", "a", "l", " ", "S", "e", "c", "u", "r", "i", "t", "y", " ", "T", "a", "x", " ", "9", " ", "9", "3", "2", " ", "4", "0">>,
      <<"S", "o", "c", "i", "a", "l", " ", "S", "e", "c", "u", "r", "i", "t", "y", " ", "T", "a", "x", " ", "-", "3", "1", "0", " ", "0", "0", " ", "9", " ", "9", "3", "2", " ", "4", "0">>,
      <<"A", "d", "&", "D", " ", "S", "p", "o", "u", "s", "e", " ", "-", "1", " ", "2", "3", " ", "4", " ", "5", "6">>,
      <<"D", "e", "n", "t", "a", "l", " ", "P", "r", "e", "t", "a", "x", " ", "1", "2", " ", "0", "0">>,
      <<"E", "s", "p", "p", " ", "-", "1", "0", "0", " ", "0", "0", " ", "1", "0", "0", " ", "0", "0", " ", "E", "s", "p", "p", " ", "3", "/", "1", "5", "-", "9", "/", "1", "4", " ", "2", " ", "5", "0", "0", " ", "0", "0">>,
      <<"E", "s", "p", "p", " ", "3", "/", "1", "5", "-", "9", "/", "1", "4", " ", "2", " ", "5", "0", "0", " ", "0", "0">>,
      <<"P", "a", "y", " ", "D", "a", "t", "e", ":", " ", "1", "/", "5", "/", "2", "0", "2", "4">>,
      <<"C", "u", "r", "r", "e", "n", "t", " ", "M", "a", "t", "c", "h", " ", "1", " ", "2", "3", "4", " ", "5", "6", "7", " ", "8", "9">>,
      <<"E", "s", "p", "p", " ", "P", "l", "a", "n", " ", "2", "5", " ", "0", "0", " ", "1", "0", "0", " ", "0", "0">>,
      <<"Y", "o", "u", "r", " ", "f", "e", "d", "e", "r", "a", "l", " ", "t", "a", "x", "a", "b", "l", "e", " ", "w", "a", "g", "e", "s", " ", "t", "h", "i", "s", " ", "p", "e", "r", "i", "o", "d", " ", "a", "r", "e", " ", "$", "4", " ", "5", "0", "0", " ", "0", "0">> }

RECURSIVE Texts(_)
Texts(n) ==
    IF n = 0 THEN {<<>>}
    ELSE LET shorter == Texts(n - 1)
         IN  shorter \cup {Append(t, l) : t \in {s \in shorter : Len(s) = n - 1},
                                            l \in LineCatalog}

SourceFileKey == <<"S", "o", "u", "r", "c", "e", " ", "F", "i", "l", "e">>

\* os.path.basename(pdf_path): the files are named in their sorted order
SourceFile == <<"s", "t", "u", "b">> \o NatStr(file_no) \o <<".", "p", "d", "f">>

\* further documents: a header after the end of the earnings section, a header
\* line that carries an exit keyword, an end right after the header, and
\* benefit deductions after a sentinel, after a benefit line with one value and
\* after their own line with two values
ExtraTexts ==
    { << <<"O", "t", "h", "e", "r", " ", "B", "e", "n", "e", "f", "i", "t", "s", " ", "a", "n", "d", " ", "I", "n", "f", "o", "r", "m", "a", "t", "i", "o", "n", " ", "t", "h", "i", "s", " ", "p", "e", "r", "i", "o", "d", " ", "t", "o", "t", "a", "l", " ", "t", "o", " ", "d", "a", "t", "e">>,
         <<"D", "e", "n", "t", "a", "l", " ", "P", "r", "e", "t", "a", "x", " ", "1", "2", " ", "0", "0">> >>,
      << <<"D", "e", "n", "t", "a", "l", " ", "P", "r", "e", "t", "a", "x", " ", "1", "2", " ", "0", "0">>,
         <<"V", "i", "s", "i", "o", "n", " ", "P", "r", "e", "t", "a", "x", " ", "3", " ", "0", "0">> >>,
      << <<"D", "e", "n", "t", "a", "l", " ", "P", "r", "e", "t", "a", "x", " ", "-", "1", "2", " ", "0", "0", " ", "1", "2", "0", " ", "0", "0">>,
         <<"D", "e", "n", "t", "a", "l", " ", "P", "r", "e", "t", "a", "x", " ", "1", "2", " ", "0", "0">> >>,
      << <<"r", "a", "t", "e", " ", "h", "o", "u", "r", "s", " ", "t", "h", "i", "s", " ", "p", "e", "r", "i", "o", "d", " ", "y", "e", "a", "r", " ", "t", "o", " ", "d", "a", "t", "e">>,
         <<"R", "e", "g", "u", "l", "a", "r", " ", "5", "0", "0", "0", " ", "0", "0", " ", "8", "0", " ", "0", "0", " ", "5", " ", "0", "0", "0", " ", "0", "0", " ", "5", " ", "0", "0", "0", " ", "0", "0">>,
         <<"G", "r", "o", "s", "s", " ", "P", "a", "y", " ", "5", " ", "0", "0", "0", " ", "0", "0">>,
         <<"r", "a", "t", "e", " ", "h", "o", "u", "r", "s", " ", "t", "h", "i", "s", " ", "p", "e", "r", "i", "o", "d", " ", "y", "e", "a", "r", " ", "t", "o", " ", "d", "a", "t", "e">>,
         <<"B", "o", "n", "u", "s", " ", "5", "0">> >>,
      << <<"r", "a", "t", "e", " ", "h", "o", "u", "r", "s", " ", "t", "h", "i", "s", " ", "p", "e", "r", "i", "o", "d", " ", "y", "e", "a", "r", " ", "t", "o", " ", "d", "a", "t", "e">>,
         <<"R", "e", "g", "u", "l", "a", "r", " ", "5", "0", "0", "0", " ", "0", "0", " ", "8", "0", " ", "0", "0", " ", "5", " ", "0", "0", "0", " ", "0", "0", " ", "5", " ", "0", "0", "0", " ", "0", "0">>,
         <<"D", "e", "d", "u", "c", "t", "i", "o", "n", "s", " ", "r", "a", "t", "e", " ", "h", "o", "u", "r", "s", " ", "t", "h", "i", "s", " ", "p", "e", "r", "i", "o", "d">>,
         <<"B", "o", "n", "u", "s", " ", "5", "0">> >>,
      << <<"r", "a", "t", "e", " ", "h", "o", "u", "r", "s", " ", "t", "h", "i", "s", " ", "p", "e", "r", "i", "o", "d", " ", "y", "e", "a", "r", " ", "t", "o", " ", "d", "a", "t", "e">>,
         <<"G", "r", "o", "s", "s", " ", "P", "a", "y", " ", "5", " ", "0", "0", "0", " ", "0", "0">>,
         <<"R", "e", "g", "u", "l", "a", "r", " ", "5", "0", "0", "0", " ", "0", "0", " ", "8", "0", " ", "0", "0", " ", "5", " ", "0", "0", "0", " ", "0", "0", " ", "5", " ", "0", "0", "0", " ", "0", "0">> >> }

Init ==
    /\ text \in (Texts(MaxLines) \ {<<>>}) \cup ExtraTexts
    /\ pc = "open"
    /\ line_no = 0
    /\ in_earnings = FALSE
    /\ earnings = EmptyDict
    /\ deductions = EmptyDict
    /\ in_other_benefits_or_ytd_only_section = FALSE
    /\ benefits = EmptyDict
    /\ data = EmptyDict
    /\ LexIdle
    /\ YtdIdle

\* the text is read; a document without text is skipped, the record of any
\* other starts with the file's name and the dates
Open ==
    /\ pc = "open"
    /\ IF \A k \in 1..Len(text) : Strip(text[k]) = <<>>
       THEN pc' = "skipped" /\ data' = None
       ELSE /\ pc' = "earnings"
            /\ data' = Update(Put(EmptyDict, SourceFileKey, SourceFile),
                              extract_pay_period_dates(FullText(text)))
    /\ UNCHANGED <<text, line_no, in_earnings, earnings, deductions,
                   in_other_benefits_or_ytd_only_section, benefits>>
    /\ UNCHANGED <<lexVars, ytdVars>>

\* parse_earnings_section: one line; at the break the parser returns, and
\* an exception skips the document
EarningsStep ==
    /\ pc = "earnings"
    /\ line_no < Len(text)
    /\ \E r \in {EarningsLine(text[line_no + 1], in_earnings, earnings)} :
           /\ in_earnings' = r.in_earnings
           /\ earnings' = r.earnings
           /\ CASE r.ctl = "next"  -> pc' = pc /\ line_no' = line_no + 1 /\ data' = data
                [] r.ctl = "break" -> /\ pc' = "deductions"
                                      /\ line_no' = 0
                                      /\ data' = Update(data, r.earnings)
                [] r.ctl = "raise" -> pc' = "skipped" /\ line_no' = line_no /\ data' = None
    /\ UNCHANGED <<text, deductions, in_other_benefits_or_ytd_only_section, benefits>>
    /\ UNCHANGED <<lexVars, ytdVars>>

\* parse_earnings_section returns at the end of the lines
EarningsReturn ==
    /\ pc = "earnings"
    /\ line_no >= Len(text)
    /\ pc' = "deductions"
    /\ line_no' = 0
    /\ data' = Update(data, earnings)
    /\ UNCHANGED <<text, in_earnings, earnings, deductions,
                   in_other_benefits_or_ytd_only_section, benefits>>
    /\ UNCHANGED <<lexVars, ytdVars>>

\* parse_deductions_section: one line
DeductionsStep ==
    /\ pc = "deductions"
    /\ line_no < Len(text)
    /\ \E st \in {DeductionsLine(text[line_no + 1], deductions,
                               in_other_benefits_or_ytd_only_section)} :
           /\ deductions' = st.deductions
           /\ in_other_benefits_or_ytd_only_section' = st.ytd_only
    /\ line_no' = line_no + 1
    /\ UNCHANGED <<text, pc, in_earnings, earnings, benefits, data>>
    /\ UNCHANGED <<lexVars, ytdVars>>

\* parse_deductions_section returns
DeductionsReturn ==
    /\ pc = "deductions"
    /\ line_no >= Len(text)
    /\ pc' = "wages"
    /\ line_no' = 0
    /\ data' = Update(Update(data, deductions), parse_other_section)
    /\ UNCHANGED <<text, in_earnings, earnings, deductions,
                   in_other_benefits_or_ytd_only_section, benefits>>
    /\ UNCHANGED <<lexVars, ytdVars>>

\* extract_taxable_wages
TaxableWages ==
    /\ pc = "wages"
    /\ pc' = "benefits"
    /\ data' = Update(data, extract_taxable_wages(text))
    /\ UNCHANGED <<text, line_no, in_earnings, earnings, deductions,
                   in_other_benefits_or_ytd_only_section, benefits>>
    /\ UNCHANGED <<lexVars, ytdVars>>

\* parse_other_benefits_section: one line
BenefitsStep ==
    /\ pc = "benefits"
    /\ line_no < Len(text)
    /\ benefits' = BenefitsLine(text[line_no + 1], benefits)
    /\ line_no' = line_no + 1
    /\ UNCHANGED <<text, pc, in_earnings, earnings, deductions,
                   in_other_benefits_or_ytd_only_section, data>>
    /\ UNCHANGED <<lexVars, ytdVars>>

\* parse_other_benefits_section returns, and the record with it
BenefitsReturn ==
    /\ pc = "benefits"
    /\ line_no >= Len(text)
    /\ pc' = "done"
    /\ data' = Update(data, benefits)
    /\ UNCHANGED <<text, line_no, in_earnings, earnings, deductions,
                   in_other_benefits_or_ytd_only_section, benefits>>
    /\ UNCHANGED <<lexVars, ytdVars>>

Next ==
    \/ Open
    \/ EarningsStep
    \/ EarningsReturn
    \/ DeductionsStep
    \/ DeductionsReturn
    \/ TaxableWages
    \/ BenefitsStep
    \/ BenefitsReturn

Spec == Init /\ [][Next]_vars

(***************************************************************************)
(* The validator on a batch: process_pdfs runs it once; a second run is    *)
(* what a caller gets by validating the returned batch again.              *)
(***************************************************************************)
MaxRecords == 3

MaxRuns == 2

MedicareYTD == <<"D", "e", "d", "u", "c", "t", "i", "o", "n", "s", " ", "M", "e", "d", "i", "c", "a", "r", "e", " ", "T", "a", "x", " ", "Y", "T", "D">>

RegularYTD == <<"E", "a", "r", "n", "i", "n", "g", "s", " ", "R", "e", "g", "u", "l", "a", "r", " ", "Y", "T", "D">>

Medicare == <<"D", "e", "d", "u", "c", "t", "i", "o", "n", "s", " ", "M", "e", "d", "i", "c", "a", "r", "e", " ", "T", "a", "x">>

\* what the first YTD field of a record may hold: amounts as the parsers
\* write them, a blank, and a string that is no number
MedicareValues ==
    { <<"1", "0", "0", ".", "0", "0">>, <<"9", "9", ".", "9", "8">>, <<".", "5", "0">>, <<>>, <<" ">>, <<"n", "/", "a">> }

RegularValues == { <<"7", ".", "2", "5">> }

\* a record with or without each of the fields
Records ==
    { Update(Update(a, b), c) :
        a \in {EmptyDict} \cup {Put(EmptyDict, MedicareYTD, v) : v \in MedicareValues},
        b \in {EmptyDict} \cup {Put(EmptyDict, RegularYTD, v) : v \in RegularValues},
        c \in {Put(EmptyDict, Medicare, <<"-", "1", ".", "4", "5">>)} }

RECURSIVE Batches(_)
Batches(n) ==
    IF n = 0 THEN {<<>>}
    ELSE LET shorter == Batches(n - 1)
         IN  shorter \cup {Append(b, r) : b \in {s \in shorter : Len(s) = n - 1},
                                            r \in Records}

YtdInit ==
    /\ results \in Batches(MaxRecords)
    /\ previous = <<>>
    /\ runs = 0
    /\ pdf_files = <<>>
    /\ file_no = 0
    /\ LexIdle
    /\ DocIdle

\* validate_and_fix_ytd_values on the batch, after the loop over the files
Validate ==
    /\ pc = "idle"
    /\ file_no = Len(pdf_files)
    /\ runs < MaxRuns
    /\ previous' = results
    /\ results' = validate_and_fix_ytd_values(results)
    /\ runs' = runs + 1
    /\ UNCHANGED <<pdf_files, file_no>>
    /\ UNCHANGED <<lexVars, docVars>>

YtdNext == Validate

SpecYtd == YtdInit /\ [][YtdNext]_vars

(***************************************************************************)
(* process_pdfs on a directory: the files go through extract_paystub_data  *)
(* one after the other, in sorted order, and the validator runs on the     *)
(* records.  A file is its lines and whether the text provider raises on   *)
(* it.                                                                     *)
(***************************************************************************)
MaxFiles == 3

Pdf(raises, lines) == [raises |-> raises, lines |-> lines]

PdfCatalog ==
    { Pdf(TRUE, <<>>),
      Pdf(FALSE, << <<>> >>),
      Pdf(FALSE, << <<"r", "a", "t", "e", " ", "h", "o", "u", "r", "s", " ", "t", "h", "i", "s", " ", "p", "e", "r", "i", "o", "d", " ", "y", "e", "a", "r", " ", "t", "o", " ", "d", "a", "t", "e">>, <<" ", "5", "0", " ", "0", "0">> >>),
      Pdf(FALSE, << <<"r", "a", "t", "e", " ", "h", "o", "u", "r", "s", " ", "t", "h", "i", "s", " ", "p", "e", "r", "i", "o", "d", " ", "y", "e", "a", "r", " ", "t", "o", " ", "d", "a", "t", "e">>,
                    <<"R", "e", "g", "u", "l", "a", "r", " ", "5", "0", "0", "0", " ", "0", "0", " ", "8", "0", " ", "0", "0", " ", "5", " ", "0", "0", "0", " ", "0", "0", " ", "5", " ", "0", "0", "0", " ", "0", "0">> >>),
      Pdf(FALSE, << <<"S", "o", "c", "i", "a", "l", " ", "S", "e", "c", "u", "r", "i", "t", "y", " ", "T", "a", "x", " ", "9", " ", "9", "3", "2", " ", "4", "0">> >>),
      Pdf(FALSE, << <<"P", "a", "y", " ", "D", "a", "t", "e", ":", " ", "1", "/", "5", "/", "2", "0", "2", "4">> >>) }

RECURSIVE PdfLists(_)
PdfLists(n) ==
    IF n = 0 THEN {<<>>}
    ELSE LET shorter == PdfLists(n - 1)
         IN  shorter \cup {Append(l, f) : l \in {s \in shorter : Len(s) = n - 1},
                                            f \in PdfCatalog}

BatchInit ==
    /\ pdf_files \in PdfLists(MaxFiles)
    /\ file_no = 0
    /\ results = <<>>
    /\ previous = <<>>
    /\ runs = 0
    /\ LexIdle
    /\ DocIdle

\* extract_paystub_data is called on the next file; a text provider that
\* raises makes it return None at once
CallExtract ==
    /\ pc = "idle"
    /\ runs = 0
    /\ file_no < Len(pdf_files)
    /\ text' = pdf_files[file_no + 1].lines
    /\ IF pdf_files[file_no + 1].raises
       THEN pc' = "skipped" /\ data' = None
       ELSE pc' = "open" /\ data' = EmptyDict
    /\ line_no' = 0
    /\ in_earnings' = FALSE
    /\ earnings' = EmptyDict
    /\ deductions' = EmptyDict
    /\ in_other_benefits_or_ytd_only_section' = FALSE
    /\ benefits' = EmptyDict
    /\ UNCHANGED <<lexVars, ytdVars>>

\* a record is appended for every file
AppendAlways(batch, record) == Append(batch, record)

\* if data: results.append(data)
AppendIfData(batch, record) == IF record # None THEN Append(batch, record) ELSE batch

\* extract_paystub_data has returned
CollectData ==
    /\ pc \in {"done", "skipped"}
    /\ file_no < Len(pdf_files)
    /\ results' = AppendIfData(results, data)
    /\ file_no' = file_no + 1
    /\ pc' = "idle"
    /\ UNCHANGED <<text, line_no, in_earnings, earnings, deductions,
                   in_other_benefits_or_ytd_only_section, benefits, data>>
    /\ UNCHANGED <<previous, runs, pdf_files>>
    /\ UNCHANGED lexVars

BatchNext ==
    \/ CallExtract
    \/ Open
    \/ EarningsStep
    \/ EarningsReturn
    \/ DeductionsStep
    \/ DeductionsReturn
    \/ TaxableWages
    \/ BenefitsStep
    \/ BenefitsReturn
    \/ CollectData
    \/ Validate

SpecBatch == BatchInit /\ [][BatchNext]_vars

(***************************************************************************)
(* Claims about the amount lexer (checked under SpecLex).                  *)
(***************************************************************************)

\* the pattern of the shape of n tokens
AmountPat(n) ==
    CASE n = 4 -> AmountPat4 [] n = 3 -> AmountPat3 [] n = 2 -> AmountPat2 [] n = 1 -> AmountPat1

\* the shapes that match the tokens at 0-based index i
Matching(toks, i) ==
    {n \in 1..4 : /\ i + n <= Len(toks)
                  /\ FullMatch(AmountPat(n), Join(SubSeq(toks, i + 1, i + n)))}

\* C2: for every positive n < 10^9, lexing the rendering of n from index 0
\* yields n/100 with two decimals and consumes every token of the rendering.
C2_RenderThenLex ==
    num > 0 =>
      /\ (lexpc = "tried" /\ start_idx = 0) => res = Format(num)
      /\ lexpc \in {"scan", "done"} => (amounts = <<Format(num)>> /\ idx = Len(tokens))

\* C3: try_extract_at returns the amount of the longest shape that matches at
\* the index, and fails only when no shape matches there.
C3_LongestShapeWins ==
    lexpc = "tried" =>
      LET K == Matching(tokens, start_idx)
      IN  IF K = {} THEN res = None
          ELSE res = clean_amount(Join(SubSeq(tokens, start_idx + 1, start_idx + SetMax(K))))

\* a call at which a shorter shape matches as well and the longer one is returned
C3_Witness ==
    /\ lexpc = "tried"
    /\ Cardinality(Matching(tokens, start_idx)) >= 2
    /\ res = clean_amount(Join(SubSeq(tokens, start_idx + 1,
                                      start_idx + SetMax(Matching(tokens, start_idx)))))
    /\ res # clean_amount(tokens[start_idx + 1])

Amt123456 == <<"1", "2", "3", "4", ".", "5", "6">>

Amt7890 == <<"7", "8", ".", "9", "0">>

\* C4 as stated: on '1 234 56 78 90' the first amount takes four tokens and is
\* 1234.56, the second takes two more and is 78.90.
C4_AsStated ==
    tokens = GreedyTokens =>
      /\ Len(amounts) = 1 => (idx = 4 /\ amounts = <<Amt123456>>)
      /\ Len(amounts) = 2 => (idx = 6 /\ amounts = <<Amt123456, Amt7890>>)

\* C4 amended: on '1 234 56 78 90' the first amount takes three tokens and is
\* 1234.56, the second takes the remaining two and is 78.90 (never 78 alone).
C4_GreedyTwoAmounts ==
    tokens = GreedyTokens =>
      /\ Len(amounts) = 1 => (idx = 3 /\ amounts = <<Amt123456>>)
      /\ Len(amounts) = 2 => (idx = 5 /\ amounts = <<Amt123456, Amt7890>>)
      /\ Len(amounts) <= 2
      /\ lexpc = "done" => Len(amounts) = 2

C4_Witness ==
    /\ tokens = GreedyTokens
    /\ lexpc = "done"
    /\ idx = 5
    /\ amounts = <<Amt123456, Amt7890>>

(***************************************************************************)
(* Claims about the parsers (checked under Spec).                          *)
(***************************************************************************)

\* -?\d+\.\d{2}
Canonical(v) ==
    FullMatch(<<Rep({"-"}, 0, 1), Rep(Digits, 1, Len(v)), Rep({"."}, 1, 1),
                Rep(Digits, 2, 2)>>, v)

\* the keys of the record that hold amounts
IsAmountKey(k) ==
    \/ StartsWith(k, <<"E", "a", "r", "n", "i", "n", "g", "s", " ">>)
    \/ StartsWith(k, <<"D", "e", "d", "u", "c", "t", "i", "o", "n", "s", " ">>)
    \/ StartsWith(k, <<"O", "t", "h", "e", "r", " ", "B", "e", "n", "e", "f", "i", "t", "s", " ">>)
    \/ k = TaxableWagesKey

\* C1: every amount the earnings, deductions, other-benefits and
\* taxable-wages parsers put into a record has the form -?\d+\.\d{2}.
C1_AmountsCanonical ==
    /\ \A k \in DOMAIN earnings : Canonical(earnings[k])
    /\ \A k \in DOMAIN deductions : Canonical(deductions[k])
    /\ \A k \in DOMAIN benefits : Canonical(benefits[k])
    /\ pc # "skipped" => \A k \in DOMAIN data : IsAmountKey(k) => Canonical(data[k])

\* the line the running parser is about to process
AtLine(parser) == pc = parser /\ line_no < Len(text)

CurrentLine == text[line_no + 1]

\* a line of the earnings section that carries a label
IsEarningsEntry(line) ==
    /\ in_earnings
    /\ ~IsEarningsHeader(line)
    /\ ~IsEarningsExit(line)
    /\ Strip(line) # <<>>
    /\ Description(line) \notin {None, <<>>, <<"N", "e", "t", " ", "P", "a", "y">>, <<"N", "e", "t", " ", "C", "h", "e", "c", "k">>}

\* the amounts collected from an earnings line
LineAmounts(line) == CollectAmounts(Split(Strip(AfterFirst(line, Description(line)))))

\* a dictionary of one or two fields
Field(k, v) == Put(EmptyDict, k, v)

\* C5: an earnings line with label L and k collected amounts emits, for k = 4,
\* 'Earnings L' = 3rd and 'Earnings L YTD' = 4th; for k = 3, the 2nd and the
\* 3rd; for k = 2, the 1st and the 2nd; for k = 1, only 'Earnings L YTD'; and
\* no other earnings field.
C5_EarningsDisposition ==
    [][ (AtLine("earnings") /\ IsEarningsEntry(CurrentLine)) =>
          LET a   == LineAmounts(CurrentLine)
              key == <<"E", "a", "r", "n", "i", "n", "g", "s", " ">> \o Description(CurrentLine)
          IN  /\ Len(a) = 4 =>
                   earnings' = Update(earnings, Update(Field(key, a[3]), Field(YTD(key), a[4])))
              /\ Len(a) = 3 =>
                   earnings' = Update(earnings, Update(Field(key, a[2]), Field(YTD(key), a[3])))
              /\ Len(a) = 2 =>
                   earnings' = Update(earnings, Update(Field(key, a[1]), Field(YTD(key), a[2])))
              /\ Len(a) = 1 =>
                   earnings' = Update(earnings, Field(YTD(key), a[1]))
      ]_vars

\* scenario 1: 'Regular 5000 00 80 00 5 000 00 5 000 00' has been parsed
C5_Witness ==
    /\ pc = "earnings"
    /\ line_no >= 1
    /\ text[line_no] = <<"R", "e", "g", "u", "l", "a", "r", " ", "5", "0", "0", "0", " ", "0", "0", " ", "8", "0", " ", "0", "0", " ", "5", " ", "0", "0", "0", " ", "0", "0", " ", "5", " ", "0", "0", "0", " ", "0", "0">>
    /\ DOMAIN earnings = {<<"E", "a", "r", "n", "i", "n", "g", "s", " ", "R", "e", "g", "u", "l", "a", "r">>, <<"E", "a", "r", "n", "i", "n", "g", "s", " ", "R", "e", "g", "u", "l", "a", "r", " ", "Y", "T", "D">>}
    /\ earnings[<<"E", "a", "r", "n", "i", "n", "g", "s", " ", "R", "e", "g", "u", "l", "a", "r">>] = <<"5", "0", "0", "0", ".", "0", "0">>
    /\ earnings[<<"E", "a", "r", "n", "i", "n", "g", "s", " ", "R", "e", "g", "u", "l", "a", "r", " ", "Y", "T", "D">>] = <<"5", "0", "0", "0", ".", "0", "0">>

SocialSecurityKey == <<"D", "e", "d", "u", "c", "t", "i", "o", "n", "s", " ", "S", "o", "c", "i", "a", "l", " ", "S", "e", "c", "u", "r", "i", "t", "y", " ", "T", "a", "x">>

\* the line is the first 'Social Security Tax' line to be processed and it
\* carries exactly one amount, without a minus sign
IsSingleUnsignedSocialSecurity(line) ==
    /\ Contains(line, SocialSecurityTax)
    /\ SocialSecurityKey \notin DOMAIN deductions
    /\ YTD(SocialSecurityKey) \notin DOMAIN deductions
    /\ LET pair == extract_amounts_from_line(line, SocialSecurityTax)
       IN  /\ Truthy(pair[1])
           /\ ~Truthy(pair[2])
           /\ pair[1][1] # "-"

\* C6: the first processed 'Social Security Tax' line that carries exactly one
\* amount, without a leading minus, emits that amount as 'Deductions Social
\* Security Tax YTD' and emits no current-period field.
C6_SocialSecuritySingleIsYtd ==
    [][ (AtLine("deductions") /\ IsSingleUnsignedSocialSecurity(CurrentLine)) =>
          /\ YTD(SocialSecurityKey) \in DOMAIN deductions'
          /\ deductions'[YTD(SocialSecurityKey)] =
                 extract_amounts_from_line(CurrentLine, SocialSecurityTax)[1]
          /\ SocialSecurityKey \notin DOMAIN deductions'
      ]_vars

\* scenario 3: 'Social Security Tax 9 932 40' has been parsed
C6_Witness ==
    /\ pc = "deductions"
    /\ line_no >= 1
    /\ text[line_no] = <<"S", "o", "c", "i", "a", "l", " ", "S", "e", "c", "u", "r", "i", "t", "y", " ", "T", "a", "x", " ", "9", " ", "9", "3", "2", " ", "4", "0">>
    /\ YTD(SocialSecurityKey) \in DOMAIN deductions
    /\ deductions[YTD(SocialSecurityKey)] = <<"9", "9", "3", "2", ".", "4", "0">>
    /\ SocialSecurityKey \notin DOMAIN deductions

EsppKey == <<"D", "e", "d", "u", "c", "t", "i", "o", "n", "s", " ", "E", "s", "p", "p">>

\* the 'Espp' at pos is followed by a date fragment: whitespace, digits, '/'
DateFollows(line, pos) ==
    LET text_after == Slice(line, pos + 4, pos + 20)
    IN  PrefixMatch(<<Rep(Space, 1, Len(text_after)), Rep(Digits, 1, Len(text_after)),
                      Rep({"/"}, 1, 1)>>, text_after)

\* the step leaves both 'Espp' deduction fields as they were
NoEsppEntry ==
    \A k \in {EsppKey, YTD(EsppKey)} :
        /\ (k \in DOMAIN deductions') = (k \in DOMAIN deductions)
        /\ k \in DOMAIN deductions => deductions'[k] = deductions[k]

EsppBenefitLine == <<"E", "s", "p", "p", " ", "3", "/", "1", "5", "-", "9", "/", "1", "4", " ", "2", " ", "5", "0", "0", " ", "0", "0">>

EsppBenefitKey == <<"O", "t", "h", "e", "r", " ", "B", "e", "n", "e", "f", "i", "t", "s", " ", "E", "s", "p", "p", " ", "3", "/", "1", "5", "-", "9", "/", "1", "4">>

\* 'Espp 3/15-9/14 2 500 00' yields 'Other Benefits Espp 3/15-9/14' = '2500.00'
EsppBenefitEmitted ==
    (AtLine("benefits") /\ CurrentLine = EsppBenefitLine) =>
        /\ EsppBenefitKey \in DOMAIN benefits'
        /\ benefits'[EsppBenefitKey] = <<"2", "5", "0", "0", ".", "0", "0">>

\* C7 as stated: a line on which some 'Espp' is immediately followed by a date
\* fragment produces no 'Deductions Espp' and no 'Deductions Espp YTD' entry,
\* and 'Espp 3/15-9/14 2 500 00' produces 'Other Benefits Espp 3/15-9/14'.
C7_AsStated ==
    [][ /\ (AtLine("deductions")
            /\ \E pos \in Occurrences(CurrentLine, Espp) : DateFollows(CurrentLine, pos))
           => NoEsppEntry
        /\ EsppBenefitEmitted
      ]_vars

\* C7 amended: a line on which the first 'Espp' is immediately followed by a
\* date fragment produces no 'Deductions Espp' and no 'Deductions Espp YTD'
\* entry, and 'Espp 3/15-9/14 2 500 00' produces 'Other Benefits Espp
\* 3/15-9/14' = '2500.00'.
C7_FirstEsppWithDate ==
    [][ /\ (AtLine("deductions")
            /\ Contains(CurrentLine, Espp)
            /\ DateFollows(CurrentLine, Find(CurrentLine, Espp)))
           => NoEsppEntry
        /\ EsppBenefitEmitted
      ]_vars

\* scenario 4: both parsers have read 'Espp 3/15-9/14 2 500 00'
C7_Witness ==
    /\ pc = "benefits"
    /\ line_no >= 1
    /\ text[line_no] = EsppBenefitLine
    /\ EsppBenefitKey \in DOMAIN benefits
    /\ benefits[EsppBenefitKey] = <<"2", "5", "0", "0", ".", "0", "0">>
    /\ EsppKey \notin DOMAIN deductions
    /\ YTD(EsppKey) \notin DOMAIN deductions

\* the known labels of which a longer known label on the line is an extension
ShadowedLabels(line) ==
    { deduction_names[s] : s \in
        { j \in 1..Len(deduction_names) :
            \E l \in 1..Len(deduction_names) :
                /\ Len(deduction_names[j]) < Len(deduction_names[l])
                /\ StartsWith(deduction_names[l], deduction_names[j])
                /\ Contains(line, deduction_names[l]) } }

\* C8: a line that contains a longer label of which a shorter known label is a
\* prefix emits no entry for the shorter label.
C8_PrefixNeverFires ==
    [][ AtLine("deductions") =>
          \A short \in ShadowedLabels(CurrentLine) :
              \A k \in {DeductionsKey(short), YTD(DeductionsKey(short))} :
                  k \in DOMAIN deductions' => k \in DOMAIN deductions
      ]_vars

(***************************************************************************)
(* Claims about the validator (checked under SpecYtd).                     *)
(***************************************************************************)

\* the field is absent from the record, or blank
IsMissing(record, ytd_field) ==
    ytd_field \notin DOMAIN record \/ Strip(record[ytd_field]) = <<>>

\* the field holds a number
IsParseable(record, ytd_field) ==
    /\ ~IsMissing(record, ytd_field)
    /\ float(Without(record[ytd_field], {","})) # NoFloat

\* the records before the j-th that hold a number in the field
Sources(batch, j, ytd_field) == {k \in 1..(j - 1) : IsParseable(batch[k], ytd_field)}

\* C9: after validation, a record in which a YTD field was absent or blank and
\* that follows a record with a parseable value carries the most recent such
\* value, written as the same amount.
C9_ForwardFillSameAmount ==
    runs = 1 =>
      \A j \in 1..Len(previous) : \A f \in ytd_fields(previous) :
          (IsMissing(previous[j], f) /\ Sources(previous, j, f) # {}) =>
              /\ f \in DOMAIN results[j]
              /\ results[j][f] = previous[SetMax(Sources(previous, j, f))][f]

\* C10: a second run of the validator changes nothing.
C10_ValidateIdempotent == runs >= 2 => results = previous

\* a second run over a batch in which the first run filled a value
C10_Witness ==
    /\ runs = 2
    /\ \E j \in 1..Len(results) :
          /\ MedicareYTD \in DOMAIN results[j]
          /\ results[j][MedicareYTD] = <<"1", "0", "0", ".", "0">>

\* the value of a float in hundredths
Cents(x) == IF x.neg THEN 0 - x.mag ELSE x.mag

\* the number held by a field that IsParseable
Amount(record, ytd_field) == Cents(float(Without(record[ytd_field], {","})))

\* C11: the validator never changes or removes a field that is present and
\* not blank, a YTD value that dropped by more than 0.01 included; it writes
\* only YTD fields that were absent or blank; it neither adds, removes nor
\* reorders records.
C11_ValidateFrame ==
    runs >= 1 =>
      /\ Len(results) = Len(previous)
      /\ \A j \in 1..Len(previous) :
           /\ \A k \in DOMAIN previous[j] :
                Strip(previous[j][k]) # <<>> =>
                    k \in DOMAIN results[j] /\ results[j][k] = previous[j][k]
           /\ DOMAIN previous[j] \subseteq DOMAIN results[j]
           /\ \A k \in DOMAIN results[j] :
                (k \notin DOMAIN previous[j] \/ results[j][k] # previous[j][k]) =>
                    EndsWith(k, <<" ", "Y", "T", "D">>) /\ IsMissing(previous[j], k)

\* a batch with a drop from 100.00 to 99.98 and a record to fill has been
\* validated: the drop is kept, and the record is filled
C11_Witness ==
    /\ runs = 1
    /\ Len(previous) = 3
    /\ MedicareYTD \in DOMAIN previous[1] /\ previous[1][MedicareYTD] = <<"1", "0", "0", ".", "0", "0">>
    /\ MedicareYTD \in DOMAIN previous[2] /\ previous[2][MedicareYTD] = <<"9", "9", ".", "9", "8">>
    /\ MedicareYTD \notin DOMAIN previous[3]
    /\ results[2][MedicareYTD] = <<"9", "9", ".", "9", "8">>
    /\ MedicareYTD \in DOMAIN results[3]

\* the j-th record holds a number more than 0.01 below the number of the
\* closest record before it that holds one
DropsAt(batch, j, ytd_field) ==
    /\ IsParseable(batch[j], ytd_field)
    /\ Sources(batch, j, ytd_field) # {}
    /\ Amount(batch[j], ytd_field) <
           Amount(batch[SetMax(Sources(batch, j, ytd_field))], ytd_field) - 1

\* C12 as stated: after validation the values of every YTD field are
\* non-decreasing from record to record, up to a drop of 0.01.
C12_AsStated ==
    runs = 1 =>
      \A j \in 1..Len(results) : \A f \in ytd_fields(results) : ~DropsAt(results, j, f)

\* C12 amended: the validator introduces no decrease and removes none: after
\* validation a record's value lies more than 0.01 below the preceding value
\* exactly when the record carried that value, as a drop, in the input.
C12_NoNewDecrease ==
    runs = 1 =>
      \A j \in 1..Len(results) : \A f \in ytd_fields(results) :
          DropsAt(results, j, f) <=>
              (f \in ytd_fields(previous) /\ DropsAt(previous, j, f))

\* the drop of the input is still there after validation, in a batch in which
\* the validator also filled a record
C12_Witness ==
    /\ runs = 1
    /\ Len(results) = 3
    /\ DropsAt(results, 2, MedicareYTD)
    /\ IsMissing(previous[3], MedicareYTD)
    /\ MedicareYTD \in DOMAIN results[3]
    /\ results[3][MedicareYTD] = <<"9", "9", ".", "9", "8">>

(***************************************************************************)
(* Claims about the assembled record (checked under Spec).                 *)
(***************************************************************************)

\* the header labels and the fields they fill
DateFields ==
    { <<<<"P", "e", "r", "i", "o", "d", " ", "B", "e", "g", "i", "n", "n", "i", "n", "g", ":">>, <<"P", "a", "y", " ", "P", "e", "r", "i", "o", "d", " ", "B", "e", "g", "i", "n", "n", "i", "n", "g">>>>,
      <<<<"P", "e", "r", "i", "o", "d", " ", "E", "n", "d", "i", "n", "g", ":">>, <<"P", "a", "y", " ", "P", "e", "r", "i", "o", "d", " ", "E", "n", "d", "i", "n", "g">>>>,
      <<<<"P", "a", "y", " ", "D", "a", "t", "e", ":">>, <<"P", "a", "y", " ", "D", "a", "t", "e">>>> }

\* the label occurs in the text followed by a date
OccursWithDate(lines, label) ==
    \E p \in Occurrences(FullText(lines), label) :
        LET rest == Slice(FullText(lines), p + Len(label), Len(FullText(lines)))
        IN  \E b \in 0..Len(rest) :
              /\ \A k \in 1..b : rest[k] \in {" ", "\n"}
              /\ Ends(<<Rep(Digits, 1, 2), Rep({"/"}, 1, 1), Rep(Digits, 1, 2),
                        Rep({"/"}, 1, 1), Rep(Digits, 4, 4)>>, rest, b + 1) # {}

\* C13: a header label that does not occur with a date leaves its field
\* absent from the record: no key, and no null placeholder.
C13_AbsentDateAbsentField ==
    pc \notin {"open", "skipped"} =>
      /\ \A lf \in DateFields :
           ~OccursWithDate(text, lf[1]) => lf[2] \notin DOMAIN data
      /\ \A k \in DOMAIN data : data[k] # None

(***************************************************************************)
(* Claims about the batch (checked under SpecBatch).                       *)
(***************************************************************************)

\* the loop of parse_earnings_section gets to the k-th line with in_earnings
\* set: a header line lies before it, and no exit line after the first
\* header has broken the loop
InEarningsAt(lines, k) ==
    \E h \in 1..(k - 1) :
        /\ IsEarningsHeader(lines[h])
        /\ \A m \in (h + 1)..(k - 1) :
              IsEarningsHeader(lines[m]) \/ ~IsEarningsExit(lines[m])

\* the k-th line makes parse_earnings_section raise: its description is
\* empty, and str.split does not take an empty separator
RaisesAt(lines, k) ==
    /\ InEarningsAt(lines, k)
    /\ ~IsEarningsHeader(lines[k])
    /\ ~IsEarningsExit(lines[k])
    /\ Strip(lines[k]) # <<>>
    /\ Description(lines[k]) = <<>>

\* the file contributes no record: the text provider raises, the text is
\* empty, or a parser raises
IsSkipped(pdf) ==
    \/ pdf.raises
    \/ \A k \in 1..Len(pdf.lines) : Strip(pdf.lines[k]) = <<>>
    \/ \E k \in 1..Len(pdf.lines) : RaisesAt(pdf.lines, k)

\* the names of the first n files that are not skipped, in order
RECURSIVE RemainingNames(_)
RemainingNames(n) ==
    IF n = 0 THEN <<>>
    ELSE RemainingNames(n - 1) \o
         (IF IsSkipped(pdf_files[n]) THEN <<>>
          ELSE << <<"s", "t", "u", "b">> \o NatStr(n - 1) \o <<".", "p", "d", "f">> >>)

\* C14: a document whose text provider raises, whose text is empty or whose
\* parsing raises contributes no record and does not stop the batch: the
\* records are exactly one for each remaining document, in the order the
\* documents were processed.
C14_SkippedDocuments ==
    /\ \E names \in {RemainingNames(file_no)} :
         /\ Len(results) = Len(names)
         /\ \A j \in 1..Len(results) :
              /\ results[j] # None
              /\ SourceFileKey \in DOMAIN results[j]
              /\ results[j][SourceFileKey] = names[j]
    /\ runs >= 1 => file_no = Len(pdf_files)

\* a batch of three files, the second skipped for a parser's exception, has
\* been through the loop and the validator
C14_Witness ==
    /\ runs = 1
    /\ Len(pdf_files) = 3
    /\ ~IsSkipped(pdf_files[1])
    /\ ~pdf_files[2].raises
    /\ \E k \in 1..Len(pdf_files[2].lines) : Strip(pdf_files[2].lines[k]) # <<>>
    /\ \E k \in 1..Len(pdf_files[2].lines) : RaisesAt(pdf_files[2].lines, k)
    /\ ~IsSkipped(pdf_files[3])
    /\ Len(results) = 2
    /\ results[1][SourceFileKey] = <<"s", "t", "u", "b", "0", ".", "p", "d", "f">>
    /\ results[2][SourceFileKey] = <<"s", "t", "u", "b", "2", ".", "p", "d", "f">>

(***************************************************************************)
(* Further claims about the parsers (checked under Spec).                  *)
(***************************************************************************)

\* the benefit labels matched on the line, in the order of benefit_names
BenefitLabels(line) ==
    SelectSeq([k \in 1..Len(benefit_names) |-> MatchedName(line, benefit_names[k])],
              Truthy)

\* C15: for a matched benefit label, the amount the other-benefits parser
\* emits is what the amount lexer, with its four shapes, gives at index 0 of
\* the tokens after the label; a four-token amount of 1,000,000 or more is
\* emitted with its full value.
C15_BenefitAmountIsLexed ==
    [][ (AtLine("benefits") /\ BenefitLabels(CurrentLine) # <<>>) =>
          LET label  == BenefitLabels(CurrentLine)[1]
              lexed  == try_extract_at(Split(Remainder(CurrentLine, label)), 0)
          IN  IF lexed = None THEN benefits' = benefits
              ELSE benefits' = Put(benefits, BenefitsKey(label), lexed)
      ]_vars

\* the step leaves the field as it was: absent, or present with its value
FieldKept(k) ==
    /\ (k \in DOMAIN deductions') = (k \in DOMAIN deductions)
    /\ k \in DOMAIN deductions => deductions'[k] = deductions[k]

\* C16: once a line has made the deductions parser emit 'Deductions L' or
\* 'Deductions L YTD', no later occurrence of L changes either field or adds
\* the other one.
C16_FirstOccurrenceWins ==
    [][ \A n \in 1..Len(deduction_names) :
          LET key == DeductionsKey(deduction_names[n])
          IN  (key \in DOMAIN deductions \/ YTD(key) \in DOMAIN deductions) =>
                  FieldKept(key) /\ FieldKept(YTD(key))
      ]_vars

\* 'Social Security Tax 9 932 40' gave the YTD field, and the later line
\* 'Social Security Tax -310 00 9 932 40' has added no current-period field
C16_Witness ==
    /\ pc = "deductions"
    /\ line_no = 2
    /\ text = << <<"S", "o", "c", "i", "a", "l", " ", "S", "e", "c", "u", "r", "i", "t", "y", " ", "T", "a", "x", " ", "9", " ", "9", "3", "2", " ", "4", "0">>,
                 <<"S", "o", "c", "i", "a", "l", " ", "S", "e", "c", "u", "r", "i", "t", "y", " ", "T", "a", "x", " ", "-", "3", "1", "0", " ", "0", "0", " ", "9", " ", "9", "3", "2", " ", "4", "0">> >>
    /\ SocialSecurityKey \notin DOMAIN deductions
    /\ YTD(SocialSecurityKey) \in DOMAIN deductions
    /\ deductions[YTD(SocialSecurityKey)] = <<"9", "9", "3", "2", ".", "4", "0">>

\* C17: whenever the deductions parser emits the current-period field
\* 'Deductions Espp', its value begins with a minus sign.
C17_EsppDeductionIsNegative ==
    EsppKey \in DOMAIN deductions => StartsWith(deductions[EsppKey], <<"-">>)

\* the line contains 'rate', 'hours' and 'this period', in any case
HasHeaderMarkers(line) ==
    \A marker \in {<<"r", "a", "t", "e">>, <<"h", "o", "u", "r", "s">>, <<"t", "h", "i", "s", " ", "p", "e", "r", "i", "o", "d">>} : Contains(Lower(line), marker)

\* the line contains 'Gross Pay', 'Federal Income Tax', 'Deductions' or
\* 'Net Check'
HasExitKeyword(line) ==
    \E keyword \in {<<"G", "r", "o", "s", "s", " ", "P", "a", "y">>, <<"F", "e", "d", "e", "r", "a", "l", " ", "I", "n", "c", "o", "m", "e", " ", "T", "a", "x">>, <<"D", "e", "d", "u", "c", "t", "i", "o", "n", "s">>, <<"N", "e", "t", " ", "C", "h", "e", "c", "k">>} :
        Contains(line, keyword)

\* the k-th line lies after the first header line, and no line after that
\* header up to the k-th is one of the closing lines
OpenSection(lines, k, closing) ==
    \E h \in 1..(k - 1) :
        /\ HasHeaderMarkers(lines[h])
        /\ \A g \in 1..(h - 1) : ~HasHeaderMarkers(lines[g])
        /\ \A m \in (h + 1)..k : m \notin closing

\* the lines with an exit keyword
ExitLines(lines) == {m \in 1..Len(lines) : HasExitKeyword(lines[m])}

\* the lines with an exit keyword that are not header lines themselves
ClosingLines(lines) == {m \in ExitLines(lines) : ~HasHeaderMarkers(lines[m])}

\* C18 as stated: the earnings parser emits fields only from lines strictly
\* after a header line and strictly before the first later line that contains
\* an exit keyword; after that line nothing contributes, even after another
\* header.
C18_AsStated ==
    [][ (pc = "earnings" /\ earnings' # earnings) =>
            OpenSection(text, line_no + 1, ExitLines(text)) ]_vars

\* C18 amended: the earnings parser emits fields only from lines strictly after
\* a header line and strictly before the first later line that contains an exit
\* keyword without being a header line itself; after that line nothing
\* contributes, even after another header.
C18_SectionBounds ==
    [][ (pc = "earnings" /\ earnings' # earnings) =>
            /\ OpenSection(text, line_no + 1, ClosingLines(text))
            /\ ~HasHeaderMarkers(text[line_no + 1]) ]_vars

\* the section ended at 'Gross Pay'; the header and 'Bonus 50' after it gave
\* nothing
C18_Witness ==
    /\ pc = "deductions"
    /\ Len(text) = 5
    /\ text[3] = <<"G", "r", "o", "s", "s", " ", "P", "a", "y", " ", "5", " ", "0", "0", "0", " ", "0", "0">>
    /\ HasHeaderMarkers(text[4])
    /\ text[5] = <<"B", "o", "n", "u", "s", " ", "5", "0">>
    /\ DOMAIN earnings = {<<"E", "a", "r", "n", "i", "n", "g", "s", " ", "R", "e", "g", "u", "l", "a", "r">>, <<"E", "a", "r", "n", "i", "n", "g", "s", " ", "R", "e", "g", "u", "l", "a", "r", " ", "Y", "T", "D">>}

\* the benefit-style deduction labels
BenefitStyleLabels ==
    { <<"B", "a", "s", "i", "c", " ", "L", "i", "f", "e", " ", "I", "n", "c">>, <<"A", "c", "c", "i", "d", "e", "n", "t">>, <<"A", "d", "&", "D">>, <<"A", "d", "&", "D", " ", "S", "p", "o", "u", "s", "e">>, <<"A", "f", "t", "e", "r", "-", "T", "a", "x", " ", "D", "e", "d">>,
      <<"C", "r", "i", "t", " ", "I", "l", "l", " ", "S", "p", "o", "u", "s", "e">>, <<"C", "r", "i", "t", "i", "c", "a", "l", " ", "I", "l", "l", "n", "e", "s">>, <<"D", "e", "n", "t", "a", "l", " ", "P", "r", "e", "t", "a", "x">>, <<"E", "e", " ", "L", "i", "f", "e">>, <<"H", "s", "a">>,
      <<"L", "e", "g", "a", "l">>, <<"M", "e", "d", "i", "c", "a", "l", " ", "P", "r", "e", "t", "a", "x">>, <<"N", "o", "n", " ", "C", "a", " ", "S", "t", "d">>, <<"R", "o", "t", "h", " ", "4", "0", "1", "K">>, <<"S", "p", "o", "u", "s", "e", " ", "L", "i", "f", "e">>,
      <<"V", "i", "s", "i", "o", "n", " ", "P", "r", "e", "t", "a", "x">> }

\* the line holds the first contributing occurrence of the label, and it
\* carries exactly one amount
IsFirstSingle(line, label) ==
    /\ Contains(line, label)
    /\ DeductionsKey(label) \notin DOMAIN deductions
    /\ YTD(DeductionsKey(label)) \notin DOMAIN deductions
    /\ LET pair == extract_amounts_from_line(line, label)
       IN  Truthy(pair[1]) /\ ~Truthy(pair[2])

\* C19: the first contributing occurrence of a benefit-style deduction label
\* that carries exactly one amount emits it as 'Deductions L YTD' and emits no
\* current-period field for L, and the entries a line emits are the same
\* whether or not the YTD-only latch is set before the line.
C19_LatchNeverMatters ==
    [][ AtLine("deductions") =>
          /\ \A label \in BenefitStyleLabels :
                IsFirstSingle(CurrentLine, label) =>
                    /\ YTD(DeductionsKey(label)) \in DOMAIN deductions'
                    /\ deductions'[YTD(DeductionsKey(label))] =
                           extract_amounts_from_line(CurrentLine, label)[1]
                    /\ DeductionsKey(label) \notin DOMAIN deductions'
          /\ \A latch \in BOOLEAN :
                deductions' = DeductionsLine(CurrentLine, deductions, latch).deductions
      ]_vars

\* 'Dental Pretax 12 00' has been parsed after a sentinel line set the latch
C19_Witness ==
    /\ pc = "deductions"
    /\ line_no = 2
    /\ IsYtdOnlySentinel(text[1])
    /\ text[2] = <<"D", "e", "n", "t", "a", "l", " ", "P", "r", "e", "t", "a", "x", " ", "1", "2", " ", "0", "0">>
    /\ in_other_benefits_or_ytd_only_section
    /\ DOMAIN deductions = {<<"D", "e", "d", "u", "c", "t", "i", "o", "n", "s", " ", "D", "e", "n", "t", "a", "l", " ", "P", "r", "e", "t", "a", "x", " ", "Y", "T", "D">>}
    /\ deductions[<<"D", "e", "d", "u", "c", "t", "i", "o", "n", "s", " ", "D", "e", "n", "t", "a", "l", " ", "P", "r", "e", "t", "a", "x", " ", "Y", "T", "D">>] = <<"1", "2", ".", "0", "0">>

====
